---- MODULE Spec2Model ----
(***************************************************************************)
(* A model of mpv's OpenGL render abstraction: the shader cache            *)
(* (video/out/opengl/shader_cache.c), the RA helpers (ra.c) and the GL     *)
(* backend (ra_gl.c).  Byte strings (bstr) are TLA+ strings, so that       *)
(* bstr_equals is string equality and the generated shader text is the     *)
(* text the C code builds.                                                 *)
(***************************************************************************)
EXTENDS Integers, Sequences, FiniteSets, TLC

(***************************************************************************)
(* Bounds of the model (not program constants).                            *)
(***************************************************************************)
\* Spec: the caller keeps at most this many distinct shaders in the pool.
MaxPool == 2
\* SpecFill: the first MaxFail of the one-line shaders do not compile.
MaxFail == 1
\* SpecFill: the caller dispatches at most this many distinct one-line shaders.
MaxFill == 50
\* At most this many uniforms are pending for one shader.
MaxUniforms == 2
\* The texture unit counter stays at or below this value.
MaxUnit == 1
\* SpecBuf: at most this many mapped buffers exist at a time.
MaxBufs == 2
\* SpecBuf: at most this many fences are ever created.
MaxSync == 3
\* SpecTex: the format table has at most this many entries.
MaxFormats == 2
\* SpecTex: at most this many textures exist at a time.
MaxTex == 1
\* SpecFmt: at most this many formats are registered.
MaxReg == 2
\* SpecProg, SpecRun: at most this many render passes exist at a time.
MaxPasses == 1

\* The passes the caller with a cache directory has created at most.
MaxDisk == 2

(***************************************************************************)
(* Program constants.                                                      *)
(***************************************************************************)
SC_MAX_ENTRIES == 48
\* union uniform_val is as large as float f[9]: 9 words of 32 bits.
UnionWords == 9

VARIABLES
    ra,       \* struct ra: the fields the shader cache reads
    sc,       \* struct gl_shader_cache
    passes,   \* the backend's live struct ra_renderpass objects, by identity
    aborted,  \* "" or the assert()/abort() that ended the process
    next_pass,\* the identity the next created render pass gets
    last,     \* what the most recent public call did (observation only)
    nfill,    \* the caller's count of distinct one-line shaders issued so far
    bufs,     \* the live struct ra_mapped_buffer_gl objects, by identity
    syncs,    \* the GL driver's live sync objects: whether each is signaled
    next_sync,\* the identity the next sync object gets
    formats,  \* ra->formats: the registered struct ra_format, in order
    gl,       \* the GL context: capabilities, live objects, bindings
    texs,     \* the live struct ra_tex objects, by identity
    pass_gl,  \* the struct ra_renderpass_gl of the live render passes
    disk,     \* the file system: the shader cache directory and its files
    held      \* the caller's struct ra_renderpass_params and what it made

vars ==
    <<ra, sc, passes, next_pass, aborted, last, nfill, bufs, syncs, next_sync,
      formats, gl, texs, pass_gl, disk, held>>

\* The format registry, the GL context, the textures and the GL side of the
\* render passes.
devvars == <<formats, gl, texs, pass_gl>>

\* The GL backend's mapped buffers and their fences, and what neither they
\* nor the shader cache touch.
glvars == <<bufs, syncs, next_sync, devvars, held>>

\* What the calls that only assemble a pending shader leave alone.
others == <<ra, passes, next_pass, aborted, glvars, disk>>

\* What the mapped buffer calls leave alone.
scvars ==
    <<ra, sc, passes, next_pass, aborted, nfill, devvars, disk, held>>

\* What the texture calls leave alone besides the registry, the context and
\* the textures.
texrest ==
    <<ra, sc, passes, next_pass, nfill, bufs, syncs, next_sync, pass_gl, disk,
      held>>

\* What the render pass calls of the GL backend leave alone besides the
\* process state and the caller's memory.
passrest ==
    <<ra, sc, next_pass, nfill, bufs, syncs, next_sync, formats, texs, disk>>

Min(S) == CHOOSE x \in S : \A y \in S : x <= y
Max(S) == CHOOSE x \in S : \A y \in S : x >= y

(***************************************************************************)
(* Data.                                                                   *)
(***************************************************************************)
ZeroVal == [w \in 1..UnionWords |-> 0]

\* struct ra_renderpass_input, zero-initialised.
ZeroInput == [name |-> "", type |-> "", dim_v |-> 0, dim_m |-> 0, binding |-> 0]

\* struct ra_renderpass_params, zero-initialised.  vertex_attribs is a pointer
\* to a caller-owned array: 0 is NULL, n > 0 is the n-th caller layout.
ZeroParams ==
    [type |-> "", vertex_attribs |-> 0, num_vertex_attribs |-> 0,
     vertex_stride |-> 0, enable_blend |-> FALSE,
     blend_src_rgb |-> 0, blend_dst_rgb |-> 0,
     blend_src_alpha |-> 0, blend_dst_alpha |-> 0,
     inputs |-> <<>>, frag_shader |-> "", vertex_shader |-> "",
     compute_shader |-> ""]

\* The vertex layouts the caller owns ({0}-terminated arrays in C).
VertexLayouts ==
    << [entries |-> << [name |-> "position", type |-> "float", dim_v |-> 2,
                        dim_m |-> 1, offset |-> 0],
                       [name |-> "texcoord0", type |-> "float", dim_v |-> 2,
                        dim_m |-> 1, offset |-> 8] >>,
        stride |-> 16],
       [entries |-> << [name |-> "position", type |-> "float", dim_v |-> 2,
                        dim_m |-> 1, offset |-> 0] >>,
        stride |-> 8],
       [entries |-> << [name |-> "position", type |-> "float", dim_v |-> 2,
                        dim_m |-> 1, offset |-> 0],
                       [name |-> "texcoord0", type |-> "float", dim_v |-> 2,
                        dim_m |-> 1, offset |-> 16] >>,
        stride |-> 32] >>

\* enum ra_blend, in declaration order.
RA_BLEND(name) ==
    CASE name = "ZERO" -> 0
      [] name = "ONE" -> 1
      [] name = "SRC_ALPHA" -> 2
      [] name = "ONE_MINUS_SRC_ALPHA" -> 3

\* enum ra_renderpass_type as printed by "type %d".
RA_RENDERPASS_TYPE(type) == IF type = "raster" THEN 1 ELSE 2

\* The textures the caller owns; a texture pointer is its index here.
Textures ==
    << [dimensions |-> 2, non_normalized |-> FALSE, external_oes |-> FALSE,
        ctype |-> "unorm"],
       [dimensions |-> 2, non_normalized |-> FALSE, external_oes |-> FALSE,
        ctype |-> "unorm"] >>

(***************************************************************************)
(* gl_sc_create, gl_sc_reset and the calls that assemble a pending shader. *)
(***************************************************************************)
\* A variant of gl_sc_reset that leaves the needs_reset marker alone.
gl_sc_reset_keep(s) ==
    [s EXCEPT !.prelude_text = "", !.header_text = "", !.text = "",
              !.uniforms = <<>>,
              !.next_texture_unit = 1, !.next_image_unit = 1,
              !.next_buffer_binding = 1,
              !.current_shader = 0,
              !.params = ZeroParams]

\* A variant of gl_sc_reset that starts the units and bindings at 0.
gl_sc_reset_unit0(s) ==
    [s EXCEPT !.prelude_text = "", !.header_text = "", !.text = "",
              !.uniforms = <<>>,
              !.next_texture_unit = 0, !.next_image_unit = 0,
              !.next_buffer_binding = 0,
              !.current_shader = 0,
              !.params = ZeroParams,
              !.needs_reset = FALSE]

\* A variant of gl_sc_reset that leaves the current shader set.
gl_sc_reset_current(s) ==
    [s EXCEPT !.prelude_text = "", !.header_text = "", !.text = "",
              !.uniforms = <<>>,
              !.next_texture_unit = 1, !.next_image_unit = 1,
              !.next_buffer_binding = 1,
              !.params = ZeroParams,
              !.needs_reset = FALSE]

\* gl_sc_reset, on the cache struct s.
gl_sc_reset(s) ==
    [s EXCEPT !.prelude_text = "", !.header_text = "", !.text = "",
              !.uniforms = <<>>,
              !.next_texture_unit = 1, !.next_image_unit = 1,
              !.next_buffer_binding = 1,
              !.current_shader = 0,
              !.params = ZeroParams,
              !.needs_reset = FALSE]

\* gl_sc_create: a zeroed struct, then gl_sc_reset.
gl_sc_create ==
    gl_sc_reset(
        [exts |-> <<>>, prelude_text |-> "", header_text |-> "", text |-> "",
         next_texture_unit |-> 0, next_image_unit |-> 0,
         next_buffer_binding |-> 0, params |-> ZeroParams,
         entries |-> <<>>, current_shader |-> 0, uniforms |-> <<>>,
         needs_reset |-> FALSE, error_state |-> FALSE, cache_dir |-> ""])

\* The record of a public call: the fields a dispatch fills in, and the
\* fields a mapped buffer call fills in (buf, the value returned, the result
\* of glClientWaitSync or "" if it was not called, the sync object deleted).
Call(op) ==
    [op |-> op, type |-> "", key |-> "", pre_n |-> 0, hit |-> FALSE,
     entry |-> 0, flushed |-> FALSE, destroyed |-> {}, created |-> FALSE,
     create_ok |-> FALSE, ran |-> FALSE, run_pass |-> 0, values |-> <<>>,
     buf |-> 0, ret |-> FALSE, res |-> "", deleted |-> 0, cmds |-> <<>>,
     args |-> <<>>]

Alive == aborted = ""

\* A variant of enable_extension without the search for the name.
enable_extension_again(s, name) == [s EXCEPT !.exts = Append(@, name)]

\* gl_sc_enable_extension, on the cache struct s.
enable_extension(s, name) ==
    IF \E n \in 1..Len(s.exts) : s.exts[n] = name
    THEN s
    ELSE [s EXCEPT !.exts = Append(@, name)]

gl_sc_enable_extension(name) ==
    /\ Alive
    /\ sc' = enable_extension(sc, name)
    /\ last' = Call("assemble")
    /\ UNCHANGED others

\* gl_sc_add / gl_sc_addf: append to the body text.
gl_sc_add(t) ==
    /\ Alive
    /\ sc' = [sc EXCEPT !.text = @ \o t]
    /\ last' = Call("assemble")
    /\ UNCHANGED others

\* gl_sc_hadd / gl_sc_haddf / gl_sc_hadd_bstr: append to the header text.
gl_sc_hadd(t) ==
    /\ Alive
    /\ sc' = [sc EXCEPT !.header_text = @ \o t]
    /\ last' = Call("assemble")
    /\ UNCHANGED others

\* gl_sc_paddf: append to the prelude text.
gl_sc_paddf(t) ==
    /\ Alive
    /\ sc' = [sc EXCEPT !.prelude_text = @ \o t]
    /\ last' = Call("assemble")
    /\ UNCHANGED others

\* A variant of find_uniform without the search for the name.
find_uniform_append(us, name) ==
    [uniforms |-> Append(us,
                    [input |-> [ZeroInput EXCEPT !.name = name, !.dim_v = 1,
                                                 !.dim_m = 1],
                     glsl_type |-> "", v |-> ZeroVal, buffer_format |-> ""]),
     n |-> Len(us) + 1]

\* find_uniform: the uniform array after the call, and the index it returns.
\* A pending uniform of that name is overwritten in place by the fresh
\* struct (dim_v = dim_m = 1, everything else zero), keeping its name.
find_uniform(us, name) ==
    LET new == [input |-> [ZeroInput EXCEPT !.name = name, !.dim_v = 1,
                                            !.dim_m = 1],
                glsl_type |-> "", v |-> ZeroVal, buffer_format |-> ""]
        found == {n \in 1..Len(us) : us[n].input.name = name}
    IN  IF found # {}
        THEN [uniforms |-> [us EXCEPT ![Min(found)] = new], n |-> Min(found)]
        ELSE [uniforms |-> Append(us, new), n |-> Len(us) + 1]

\* The glsl type gl_sc_uniform_texture picks for a texture.
sampler_type(tex) ==
    IF tex.dimensions = 1 THEN "sampler1D"
    ELSE IF tex.dimensions = 3 THEN "sampler3D"
    ELSE IF tex.non_normalized THEN "sampler2DRect"
    ELSE IF tex.external_oes THEN "samplerExternalOES"
    ELSE IF tex.ctype = "uint"
         THEN (IF ra.glsl_es THEN "highp usampler2D" ELSE "usampler2D")
    ELSE "sampler2D"

gl_sc_uniform_texture(name, tex) ==
    /\ Alive
    /\ LET f == find_uniform(sc.uniforms, name)
           u == [f.uniforms[f.n] EXCEPT
                    !.input.type = "tex",
                    !.glsl_type = sampler_type(Textures[tex]),
                    !.input.binding = sc.next_texture_unit,
                    !.v = [ZeroVal EXCEPT ![1] = tex]]
       IN  sc' = [sc EXCEPT !.uniforms = [f.uniforms EXCEPT ![f.n] = u],
                            !.next_texture_unit = @ + 1]
    /\ last' = Call("assemble")
    /\ UNCHANGED others

gl_sc_uniform_image2D_wo(name, tex) ==
    /\ Alive
    /\ LET s1 == enable_extension(sc, "GL_ARB_shader_image_load_store")
           f == find_uniform(s1.uniforms, name)
           u == [f.uniforms[f.n] EXCEPT
                    !.input.type = "img_w",
                    !.glsl_type = "writeonly image2D",
                    !.input.binding = s1.next_image_unit,
                    !.v = [ZeroVal EXCEPT ![1] = tex]]
       IN  sc' = [s1 EXCEPT !.uniforms = [f.uniforms EXCEPT ![f.n] = u],
                            !.next_image_unit = @ + 1]
    /\ last' = Call("assemble")
    /\ UNCHANGED others

gl_sc_ssbo(name, buf, format) ==
    /\ Alive
    /\ LET s1 == enable_extension(sc, "GL_ARB_shader_storage_buffer_object")
           f == find_uniform(s1.uniforms, name)
           u == [f.uniforms[f.n] EXCEPT
                    !.input.type = "buf_rw",
                    !.glsl_type = "",
                    !.input.binding = s1.next_buffer_binding,
                    !.v = [ZeroVal EXCEPT ![1] = buf],
                    !.buffer_format = format]
       IN  sc' = [s1 EXCEPT !.uniforms = [f.uniforms EXCEPT ![f.n] = u],
                            !.next_buffer_binding = @ + 1]
    /\ last' = Call("assemble")
    /\ UNCHANGED others

\* A float is the word that holds its bit pattern; 0 is 0.0.
gl_sc_uniform_f(name, f) ==
    /\ Alive
    /\ LET r == find_uniform(sc.uniforms, name)
           u == [r.uniforms[r.n] EXCEPT
                    !.input.type = "float",
                    !.glsl_type = "float",
                    !.v = [@ EXCEPT ![1] = f]]
       IN  sc' = [sc EXCEPT !.uniforms = [r.uniforms EXCEPT ![r.n] = u]]
    /\ last' = Call("assemble")
    /\ UNCHANGED others

gl_sc_uniform_i(name, i) ==
    /\ Alive
    /\ LET r == find_uniform(sc.uniforms, name)
           u == [r.uniforms[r.n] EXCEPT
                    !.input.type = "int",
                    !.glsl_type = "int",
                    !.v = [@ EXCEPT ![1] = i]]
       IN  sc' = [sc EXCEPT !.uniforms = [r.uniforms EXCEPT ![r.n] = u]]
    /\ last' = Call("assemble")
    /\ UNCHANGED others

gl_sc_uniform_vec2(name, f) ==
    /\ Alive
    /\ LET r == find_uniform(sc.uniforms, name)
           u == [r.uniforms[r.n] EXCEPT
                    !.input.type = "float",
                    !.input.dim_v = 2,
                    !.glsl_type = "vec2",
                    !.v = [@ EXCEPT ![1] = f[1], ![2] = f[2]]]
       IN  sc' = [sc EXCEPT !.uniforms = [r.uniforms EXCEPT ![r.n] = u]]
    /\ last' = Call("assemble")
    /\ UNCHANGED others

\* gl_sc_set_vertex_format: entries is the caller's layout (a pointer).
gl_sc_set_vertex_format(entries) ==
    /\ Alive
    /\ sc' = [sc EXCEPT
                !.params.vertex_attribs = entries,
                !.params.num_vertex_attribs = Len(VertexLayouts[entries].entries),
                !.params.vertex_stride = VertexLayouts[entries].stride]
    /\ last' = Call("assemble")
    /\ UNCHANGED others

gl_sc_blend(src_rgb, dst_rgb, src_alpha, dst_alpha) ==
    /\ Alive
    /\ sc' = [sc EXCEPT !.params.enable_blend = TRUE,
                        !.params.blend_src_rgb = src_rgb,
                        !.params.blend_dst_rgb = dst_rgb,
                        !.params.blend_src_alpha = src_alpha,
                        !.params.blend_dst_alpha = dst_alpha]
    /\ last' = Call("assemble")
    /\ UNCHANGED others

gl_sc_reset_error ==
    /\ Alive
    /\ sc' = [sc EXCEPT !.error_state = FALSE]
    /\ last' = Call("reset_error")
    /\ UNCHANGED others

(***************************************************************************)
(* gl_sc_generate: the shader text.                                        *)
(***************************************************************************)
RECURSIVE ext_lines(_, _)
\* "#extension %s : enable\n" for exts[n..].
ext_lines(exts, n) ==
    IF n > Len(exts) THEN ""
    ELSE "#extension " \o exts[n] \o " : enable\n" \o ext_lines(exts, n + 1)

\* The header gl_sc_generate writes to tmp[0].
shader_header(s, type) ==
    LET glsl_version == ra.glsl_version
        glsl_es == IF ra.glsl_es THEN glsl_version ELSE 0
    IN  "#version " \o ToString(glsl_version)
            \o (IF glsl_es >= 300 THEN " es" ELSE "") \o "\n"
        \o (IF type = "compute"
            THEN "#extension GL_ARB_compute_shader : enable\n" ELSE "")
        \o ext_lines(s.exts, 1)
        \o (IF glsl_es # 0
            THEN "precision mediump float;\n"
                 \o "precision mediump sampler2D;\n"
                 \o (IF ra.cap_tex_3d THEN "precision mediump sampler3D;\n"
                     ELSE "")
            ELSE "")
        \o (IF glsl_version >= 130
            THEN "#define texture1D texture\n" \o "#define texture3D texture\n"
            ELSE "#define texture texture2D\n")
        \o "#define LUT_POS(x, lut_size)"
        \o " mix(0.5 / (lut_size), 1.0 - 0.5 / (lut_size), (x))\n"

\* vao_glsl_type; "" stands for abort().
vao_glsl_type(e) ==
    CASE e.dim_v = 1 -> "float"
      [] e.dim_v = 2 -> "vec2"
      [] e.dim_v = 3 -> "vec3"
      [] e.dim_v = 4 -> "vec4"
      [] OTHER -> ""

RECURSIVE vertex_loop(_, _, _)
\* The loop over the vertex attributes, from attribute n on; acc holds
\* vert_head, vert_body, frag_vaos and the abort reached, if any.
vertex_loop(attribs, n, acc) ==
    IF n > Len(attribs) \/ acc.abort # "" THEN acc
    ELSE
    LET e == attribs[n]
        glsl_type == vao_glsl_type(e)
        vert_in == IF ra.glsl_version >= 130 THEN "in" ELSE "attribute"
        vert_out == IF ra.glsl_version >= 130 THEN "out" ELSE "varying"
        frag_in == IF ra.glsl_version >= 130 THEN "in" ELSE "varying"
    IN  IF glsl_type = "" THEN [acc EXCEPT !.abort = "vao_glsl_type"]
        ELSE IF e.name = "position"
        THEN IF ~(e.dim_v = 2 /\ e.type = "float")
             THEN [acc EXCEPT !.abort = "position"]
             ELSE vertex_loop(attribs, n + 1,
                    [acc EXCEPT
                       !.vert_head = @ \o vert_in \o " vec2 vertex_position;\n",
                       !.vert_body = @ \o
                          "gl_Position = vec4(vertex_position, 1.0, 1.0);\n"])
        ELSE vertex_loop(attribs, n + 1,
                [acc EXCEPT
                   !.vert_head = @ \o vert_in \o " " \o glsl_type \o " vertex_"
                                   \o e.name \o ";\n"
                                   \o vert_out \o " " \o glsl_type \o " "
                                   \o e.name \o ";\n",
                   !.vert_body = @ \o e.name \o " = vertex_" \o e.name \o ";\n",
                   !.frag_vaos = @ \o frag_in \o " " \o glsl_type \o " "
                                   \o e.name \o ";\n"])

RECURSIVE add_uniforms(_, _)
\* add_uniforms, from uniform n on.  Every pending uniform has one of the
\* five types, so the default: abort() branch is not reachable.
add_uniforms(us, n) ==
    IF n > Len(us) THEN ""
    ELSE LET u == us[n]
         IN  (IF u.input.type = "buf_rw"
              THEN "layout(std430, binding=" \o ToString(u.input.binding)
                   \o ") buffer " \o u.input.name \o " { "
                   \o u.buffer_format \o " };\n"
              ELSE "uniform " \o u.glsl_type \o " " \o u.input.name \o ";\n")
             \o add_uniforms(us, n + 1)

\* The vertex attributes the pending params point to.
vertex_attribs_of(p) ==
    IF p.vertex_attribs = 0 THEN <<>>
    ELSE SubSeq(VertexLayouts[p.vertex_attribs].entries, 1, p.num_vertex_attribs)

\* The vertex shader parts: the loop over the vertex attributes for a raster
\* pass, nothing for a compute pass.
vertex_parts(s, type, header) ==
    IF type = "raster"
    THEN vertex_loop(vertex_attribs_of(s.params), 1,
                     [vert_head |-> header, vert_body |-> "void main() {\n",
                      frag_vaos |-> "", abort |-> ""])
    ELSE [vert_head |-> "", vert_body |-> "", frag_vaos |-> "", abort |-> ""]

\* The fragment shader of a raster pass.
frag_text(s, header, v) ==
    header
    \o (IF ra.glsl_version >= 130 THEN "out vec4 out_color;\n" ELSE "")
    \o v.frag_vaos
    \o add_uniforms(s.uniforms, 1)
    \o s.prelude_text
    \o s.header_text
    \o "void main() {\n"
    \o "vec4 color = vec4(0.0, 0.0, 0.0, 1.0);\n"
    \o s.text
    \o (IF ra.glsl_version >= 130 THEN "out_color = color;\n"
        ELSE "gl_FragColor = color;\n")
    \o "}\n"

\* The compute shader of a compute pass.
comp_text(s, header) ==
    header
    \o add_uniforms(s.uniforms, 1)
    \o s.prelude_text
    \o s.header_text
    \o "void main() {\n"
    \o "vec4 color = vec4(0.0, 0.0, 0.0, 1.0);\n"
    \o s.text
    \o "}\n"

\* The three texts ("" is NULL) and the abort reached while writing them.
shader_texts(s, type, header, v) ==
    [vert |-> IF type = "raster"
              THEN v.vert_head \o v.vert_body \o "}\n" ELSE "",
     frag |-> IF type = "raster" THEN frag_text(s, header, v) ELSE "",
     comp |-> IF type = "compute" THEN comp_text(s, header) ELSE "",
     abort |-> v.abort]

shader_text_from(s, type, header) ==
    shader_texts(s, type, header, vertex_parts(s, type, header))

\* The shader texts of gl_sc_generate.
shader_text(s, type) == shader_text_from(s, type, shader_header(s, type))


\* A variant of hash_total that leaves the blend state out of the key.
hash_total_noblend(p, frag, vert, comp) ==
    "type " \o ToString(RA_RENDERPASS_TYPE(p.type)) \o "\n"
    \o frag \o "\n"
    \o vert \o "\n"
    \o comp \o "\n"

\* hash_total: the cache key, from the params (type, blend) and the texts.
hash_total(p, frag, vert, comp) ==
    "type " \o ToString(RA_RENDERPASS_TYPE(p.type)) \o "\n"
    \o frag \o "\n"
    \o vert \o "\n"
    \o comp \o "\n"
    \o (IF p.enable_blend
        THEN "blend " \o ToString(p.blend_src_rgb) \o " "
             \o ToString(p.blend_dst_rgb) \o " "
             \o ToString(p.blend_src_alpha) \o " "
             \o ToString(p.blend_dst_alpha) \o "\n"
        ELSE "")

\* A variant of find_entry that starts at the second entry.
find_entry_from_second(es, total) ==
    LET found == {n \in 2..Len(es) : es[n].total = total}
    IN  IF found = {} THEN 0 ELSE Min(found)

\* A variant of find_entry that looks at the newest entry only.
find_entry_newest(es, total) ==
    IF es # <<>> /\ es[Len(es)].total = total THEN Len(es) ELSE 0

\* A variant of find_entry that passes over the entries without a pass.
find_entry_usable(es, total) ==
    LET found == {n \in 1..Len(es) : es[n].total = total /\ es[n].pass # 0}
    IN  IF found = {} THEN 0 ELSE Min(found)

\* The lookup loop: the first entry whose total equals the key, or 0 (NULL).
find_entry(es, total) ==
    LET found == {n \in 1..Len(es) : es[n].total = total}
    IN  IF found = {} THEN 0 ELSE Min(found)

(***************************************************************************)
(* The backend's render passes (ra_gl.c) as far as the cache uses them.    *)
(***************************************************************************)
\* A variant of dup_inputs that leaves out the last element.
dup_inputs_short(inputs, num_inputs) ==
    [n \in 1..(num_inputs - 1) |-> inputs[n]]

\* dup_inputs: a new array with a copy of each of the num_inputs elements,
\* each with a copy of its name.
dup_inputs(inputs, num_inputs) ==
    [n \in 1..num_inputs |-> [inputs[n] EXCEPT !.name = "" \o @]]

\* ra_render_pass_params_copy: a deep copy of params.
ra_render_pass_params_copy(params) ==
    [params EXCEPT !.inputs = dup_inputs(@, Len(@))]

\* vartype_size.
vartype_size(type) ==
    CASE type = "int" -> 4
      [] type = "float" -> 4
      [] type = "byte_unorm" -> 1
      [] OTHER -> 0

\* ra_render_pass_input_data_size.
ra_render_pass_input_data_size(input) ==
    vartype_size(input.type) * input.dim_v * input.dim_m

\* The words of the int and float uniforms of a program the GL has just
\* linked: zero.  (The inputs of other types hold no words.)
program_linked(inputs) ==
    [n \in 1..Len(inputs) |->
        [w \in 1..(ra_render_pass_input_data_size(inputs[n]) \div 4) |-> 0]]

\* A variant of program_uniforms that uploads nothing.
program_uniforms_none(ps, id, values) == ps

\* update_uniform of the GL backend, the int and float cases, over the
\* values of a run: glUniform* copies dim_v * dim_m words from the data of
\* each value into the program of the pass id.
program_uniforms(ps, id, values) ==
    [ps EXCEPT ![id].uniforms =
        [n \in DOMAIN @ |->
            IF @[n] # << >> /\ \E k \in 1..Len(values) : values[k].index = n
            THEN SubSeq(values[CHOOSE k \in 1..Len(values) :
                                   values[k].index = n].data, 1, Len(@[n]))
            ELSE @[n]]]

\* gl_renderpass_create: ok is whether load_program yields a program.  The
\* pass holds its own copy of the params (ra_render_pass_params_copy).
gl_renderpass_create(ps, id, params, ok) ==
    IF ~ok THEN [pass |-> 0, passes |-> ps]
    ELSE [pass |-> id,
          passes |-> [i \in DOMAIN ps \cup {id} |->
                        IF i = id
                        THEN [params |-> ra_render_pass_params_copy(params),
                              first_run |-> TRUE,
                              uniforms |-> program_linked(params.inputs)]
                        ELSE ps[i]]]

\* gl_renderpass_destroy.
gl_renderpass_destroy(ps, id) == [i \in DOMAIN ps \ {id} |-> ps[i]]

\* A variant of gl_renderpass_run that leaves the first-run marker set.
gl_renderpass_run_keep(ps, id) == ps

\* gl_renderpass_run, as far as the pass object goes.
gl_renderpass_run(ps, id) == [ps EXCEPT ![id].first_run = FALSE]

(***************************************************************************)
(* gl_sc_generate: lookup, flush, creation, uniform update.                *)
(***************************************************************************)
\* A variant of pool_full that lets one entry too many in.
pool_full_late(s) == Len(s.entries) = SC_MAX_ENTRIES + 1

\* A variant of sc_flush_cache that evicts the oldest entry only.
sc_flush_oldest(es) ==
    [entries |-> Tail(es), destroyed |-> {es[1].pass} \ {0}]

\* The test that guards sc_flush_cache on a miss.
pool_full(s) == Len(s.entries) = SC_MAX_ENTRIES

\* sc_flush_cache: the entries left, and the passes it destroys.
sc_flush_cache(es) ==
    [entries |-> <<>>,
     destroyed |-> {es[n].pass : n \in {m \in 1..Len(es) : es[m].pass # 0}}]

\* A variant of uniform_changed that compares the whole union whatever the
\* data size.
uniform_changed_union(un, u, input) == un # u

\* A variant of uniform_changed that takes every uniform as changed.
uniform_changed_always(un, u, input) == TRUE

\* The test of update_uniform: un is the cached union, u the pending one,
\* input the pass's input.  memcmp covers the first size bytes.
uniform_changed(un, u, input) ==
    LET size == ra_render_pass_input_data_size(input)
    IN  IF size > 0
        THEN \E w \in 1..(size \div 4) : un[w] # u[w]
        ELSE TRUE

\* A variant of error_after_create that does not record the failure.
error_after_create_keep(s, pass) == s.error_state

\* The error flag after create_pass got pass (0 is NULL).
error_after_create(s, pass) == IF pass = 0 THEN TRUE ELSE s.error_state

\* The inputs a pending shader was assembled from (kept with the entry it
\* creates, for observation only).
pending_source(s, type) ==
    [prelude_text |-> s.prelude_text, header_text |-> s.header_text,
     text |-> s.text,
     decls |-> [n \in 1..Len(s.uniforms) |->
                  [name |-> s.uniforms[n].input.name,
                   glsl_type |-> s.uniforms[n].glsl_type,
                   type |-> s.uniforms[n].input.type,
                   dim_v |-> s.uniforms[n].input.dim_v,
                   dim_m |-> s.uniforms[n].input.dim_m,
                   buffer_format |-> s.uniforms[n].buffer_format,
                   binding |-> IF s.uniforms[n].input.type = "buf_rw"
                               THEN s.uniforms[n].input.binding ELSE 0]],
     type |-> type,
     blend |-> <<s.params.enable_blend, s.params.blend_src_rgb,
                 s.params.blend_dst_rgb, s.params.blend_src_alpha,
                 s.params.blend_dst_alpha>>,
     vertex_attribs |-> s.params.vertex_attribs,
     exts |-> s.exts]

\* A variant of vertex_format_set that accepts a missing vertex format.
vertex_format_any(s) == TRUE

\* The assert on the vertex format in gl_sc_generate.
vertex_format_set(s) == s.params.vertex_attribs # 0

\* What gl_sc_generate leaves: the cache, the backend's passes, the abort
\* reached ("" for none) and the record of what was done.
generated(s, ps, why, log) == [sc |-> s, passes |-> ps, abort |-> why, log |-> log]

\* The uniforms update_uniform finds changed.
changed_uniforms(us, cached_uniforms, inputs) ==
    {n \in 1..Len(us) : uniform_changed(cached_uniforms[n], us[n].v, inputs[n])}

\* The loop over update_uniform: the snapshots take the changed values and
\* sc->values lists them, rebuilt from num_values = 0.  values[k].index is
\* 1-based here and data is what &un->v points to.  (sc->values is kept in the
\* call's record: nothing reads the array before the next generate rebuilds
\* it.)
update_uniforms(s, ps, e, log, changed) ==
    LET cached == [n \in 1..Len(s.uniforms) |->
                     IF n \in changed THEN s.uniforms[n].v
                     ELSE s.entries[e].cached_uniforms[n]]
        idx == SelectSeq([n \in 1..Len(s.uniforms) |-> n],
                         LAMBDA n : n \in changed)
    IN  generated([s EXCEPT !.entries[e].cached_uniforms = cached,
                            !.current_shader = e],
                  ps, "",
                  [log EXCEPT !.values =
                      [k \in 1..Len(idx) |->
                          [index |-> idx[k], data |-> cached[idx[k]]]]])

\* gl_sc_generate once the entry e is known: return if it has no pass, check
\* the two asserts, update the uniforms.
generate_entry(s, ps, e, log) ==
    LET entry == s.entries[e]
    IN  IF entry.pass = 0 THEN generated(s, ps, "", log)
        ELSE IF Len(s.uniforms) # Len(entry.cached_uniforms)
        THEN generated(s, ps, "num_cached_uniforms", log)
        ELSE IF Len(s.uniforms) # Len(ps[entry.pass].params.inputs)
        THEN generated(s, ps, "num_inputs", log)
        ELSE update_uniforms(s, ps, e, log,
                changed_uniforms(s.uniforms, entry.cached_uniforms,
                                 ps[entry.pass].params.inputs))

\* The new entry is appended with one zeroed snapshot per pending uniform and
\* the pass create_pass got (cr).
generate_insert(s, es, cr, total, log, src) ==
    generate_entry(
        [s EXCEPT !.error_state = error_after_create(s, cr.pass),
                  !.entries = Append(es,
                      [pass |-> cr.pass,
                       cached_uniforms |-> [n \in 1..Len(s.uniforms) |-> ZeroVal],
                       total |-> total,
                       source |-> src])],
        cr.passes, Len(es) + 1,
        [log EXCEPT !.entry = Len(es) + 1, !.created = TRUE,
                    !.create_ok = cr.pass # 0])

\* create_pass: the pending uniforms' inputs are appended to sc->params.inputs
\* and the backend creates the pass.
generate_create(s, es, ps, id, ok, total, log, src) ==
    generate_insert(s, es, gl_renderpass_create(ps, id, s.params, ok),
                    total, log, src)

\* The pool after the flush fl.
generate_flushed(s, ps, id, ok, total, log, src, fl) ==
    generate_create(s, fl.entries,
                    [i \in DOMAIN ps \ fl.destroyed |-> ps[i]], id, ok, total,
                    [log EXCEPT !.flushed = TRUE, !.destroyed = fl.destroyed],
                    src)

\* The miss path: flush if the pool is full, then create.
generate_miss(s, ps, id, ok, total, log, src) ==
    IF pool_full(s)
    THEN generate_flushed(s, ps, id, ok, total, log, src,
                          sc_flush_cache(s.entries))
    ELSE generate_create(s, s.entries, ps, id, ok, total, log, src)

\* The lookup: found is the entry with the key total, or 0.
generate_found(s, ps, id, ok, total, log, src, found) ==
    IF found # 0
    THEN generate_entry(s, ps, found,
                        [log EXCEPT !.key = total, !.hit = TRUE, !.entry = found])
    ELSE generate_miss([s EXCEPT !.params.inputs =
                           @ \o [n \in 1..Len(s.uniforms) |-> s.uniforms[n].input]],
                       ps, id, ok, total, [log EXCEPT !.key = total], src)

\* The key is computed from the texts t and looked up.
generate_key(s, ps, id, ok, t, total, log, src) ==
    generate_found([s EXCEPT !.params.frag_shader = t.frag,
                             !.params.vertex_shader = t.vert,
                             !.params.compute_shader = t.comp],
                   ps, id, ok, total, log, src, find_entry(s.entries, total))

\* The texts t are written; an abort() while writing them ends the call.
generate_text(s, ps, id, ok, t, log, src) ==
    IF t.abort # "" THEN generated(s, ps, t.abort, log)
    ELSE generate_key(s, ps, id, ok, t,
                      hash_total(s.params, t.frag, t.vert, t.comp), log, src)

\* gl_sc_generate after the assert on needs_reset.
generate_started(s, ps, id, type, ok, log, src) ==
    IF ~vertex_format_set(s) THEN generated(s, ps, "vertex_attribs", log)
    ELSE generate_text(s, ps, id, ok, shader_text(s, type), log, src)

\* gl_sc_generate(sc, type).  ok is what the backend answers should a pass be
\* created, id the identity of that pass.
gl_sc_generate(s, ps, id, type, ok) ==
    IF s.needs_reset
    THEN generated([s EXCEPT !.params.type = type], ps, "needs_reset",
                   [Call(type) EXCEPT !.type = type, !.pre_n = Len(s.entries)])
    ELSE generate_started([s EXCEPT !.params.type = type, !.needs_reset = TRUE],
                          ps, id, type, ok,
                          [Call(type) EXCEPT !.type = type,
                                             !.pre_n = Len(s.entries)],
                          pending_source(s, type))

\* The rest of a dispatch once gl_sc_generate left g: run the pass if there is
\* a current shader, reset.
dispatched(g) ==
    LET cur == g.sc.current_shader
    IN  IF g.abort # ""
        THEN /\ aborted' = g.abort
             /\ sc' = g.sc
             /\ passes' = g.passes
             /\ last' = g.log
             /\ UNCHANGED <<ra, next_pass, glvars>>
        ELSE /\ sc' = gl_sc_reset(g.sc)
             /\ passes' = IF cur # 0
                          THEN gl_renderpass_run(
                                   program_uniforms(g.passes,
                                       g.sc.entries[cur].pass, g.log.values),
                                   g.sc.entries[cur].pass)
                          ELSE g.passes
             /\ next_pass' = IF g.log.create_ok THEN next_pass + 1 ELSE next_pass
             /\ last' = [g.log EXCEPT
                            !.ran = cur # 0,
                            !.run_pass = IF cur # 0 THEN g.sc.entries[cur].pass
                                         ELSE 0]
             /\ UNCHANGED <<ra, aborted, glvars>>

\* gl_sc_dispatch_draw and gl_sc_dispatch_compute of a cache without a cache
\* directory: create_pass leaves the file system alone.
gl_sc_dispatch_draw(ok) ==
    /\ Alive
    /\ sc.cache_dir = ""
    /\ dispatched(gl_sc_generate(sc, passes, next_pass, "raster", ok))
    /\ UNCHANGED disk

gl_sc_dispatch_compute(ok) ==
    /\ Alive
    /\ sc.cache_dir = ""
    /\ dispatched(gl_sc_generate(sc, passes, next_pass, "compute", ok))
    /\ UNCHANGED disk


(***************************************************************************)
(* The GL backend's persistently mapped buffers (ra_gl.c).                 *)
(***************************************************************************)
\* glFenceSync: a new sync object id, not signaled.
FenceSync(sy, id) ==
    [i \in DOMAIN sy \cup {id} |-> IF i = id THEN FALSE ELSE sy[i]]

\* glDeleteSync: a sync of 0 is silently ignored.
DeleteSync(sy, f) == [i \in DOMAIN sy \ {f} |-> sy[i]]

\* A variant of ClientWaitSync of a driver that answers
\* GL_CONDITION_SATISFIED for a signaled sync object.
ClientWaitSync_satisfied(sy, f) ==
    IF sy[f] THEN "GL_CONDITION_SATISFIED" ELSE "GL_TIMEOUT_EXPIRED"

\* glClientWaitSync(f, 0, 0): with a timeout of zero the call only tests the
\* state of the sync object.
ClientWaitSync(sy, f) ==
    IF sy[f] THEN "GL_ALREADY_SIGNALED" ELSE "GL_TIMEOUT_EXPIRED"

\* A variant of poll_resolved that drops the fence whatever the result.
poll_resolved_any(res) == TRUE

\* The result for which gl_poll_mapped_buffer drops the fence.
poll_resolved(res) == res = "GL_ALREADY_SIGNALED"

\* gl_create_mapped_buffer: b is the address the allocation gets, mapped is
\* whether glMapBufferRange yields a mapping.  On failure NULL is returned and
\* nothing stays behind.
gl_create_mapped_buffer(b, mapped) ==
    /\ Alive
    /\ b \notin DOMAIN bufs
    /\ IF ra.version < 440 \/ ~mapped
       THEN /\ bufs' = bufs
            /\ last' = Call("create_mapped_buffer")
       ELSE /\ bufs' = [i \in DOMAIN bufs \cup {b} |->
                          IF i = b THEN [fence |-> 0, used |-> FALSE]
                          ELSE bufs[i]]
            /\ last' = [Call("create_mapped_buffer") EXCEPT !.buf = b,
                                                            !.ret = TRUE]
    /\ UNCHANGED <<syncs, next_sync, scvars>>

\* The GL commands gl_tex_upload issues for a texture of dims dimensions, in
\* order; b is the mapped buffer the pixels come from, 0 for plain memory
\* (buf == NULL).  rc is NULL or the texture is 2D, as the asserts require.
\* gl_pbo_upload_tex is called with pbo off when there is a buffer.
tex_upload_cmds(dims, b) ==
    (IF b # 0 THEN <<"BindBuffer(PIXEL_UNPACK_BUFFER, pbo)">> ELSE <<>>)
    \o <<"BindTexture(target, texture)">>
    \o (CASE dims = 1 -> <<"TexImage1D">>
          [] dims = 2 -> <<"gl_pbo_upload_tex">>
          [] dims = 3 -> <<"PixelStorei(UNPACK_ALIGNMENT, 1)", "TexImage3D",
                           "PixelStorei(UNPACK_ALIGNMENT, 4)">>)
    \o <<"BindTexture(target, 0)">>
    \o (IF b # 0 THEN <<"BindBuffer(PIXEL_UNPACK_BUFFER, 0)", "DeleteSync",
                         "FenceSync">>
        ELSE <<>>)

\* What gl_tex_upload does to the fence of the mapped buffer b: the old fence
\* is deleted and a new one is put in its place.
upload_fence_leak(sy, bf, b, id) ==
    [syncs |-> FenceSync(sy, id),
     bufs  |-> [bf EXCEPT ![b].fence = id, ![b].used = TRUE]]
upload_fence(sy, bf, b, id) ==
    [syncs |-> FenceSync(DeleteSync(sy, bf[b].fence), id),
     bufs  |-> [bf EXCEPT ![b].fence = id, ![b].used = TRUE]]

\* gl_tex_upload, as far as buffers and fences go.  (used records that the
\* buffer was an upload source; observation only.)
gl_tex_upload(dims, b) ==
    /\ Alive
    /\ IF b # 0
       THEN /\ syncs' = upload_fence(syncs, bufs, b, next_sync).syncs
            /\ bufs' = upload_fence(syncs, bufs, b, next_sync).bufs
            /\ next_sync' = next_sync + 1
            /\ last' = [Call("tex_upload") EXCEPT
                           !.buf = b, !.deleted = bufs[b].fence,
                           !.cmds = tex_upload_cmds(dims, b)]
       ELSE /\ UNCHANGED <<syncs, bufs, next_sync>>
            /\ last' = [Call("tex_upload") EXCEPT
                           !.cmds = tex_upload_cmds(dims, 0)]
    /\ UNCHANGED scvars

\* The GPU completes the commands the sync object f waits for.
GpuSignal(f) ==
    /\ f \in DOMAIN syncs
    /\ ~syncs[f]
    /\ syncs' = [syncs EXCEPT ![f] = TRUE]
    /\ last' = Call("gpu_signal")
    /\ UNCHANGED <<bufs, next_sync, scvars>>

\* gl_poll_mapped_buffer.
gl_poll_mapped_buffer(b) ==
    LET f == bufs[b].fence
        res == IF f # 0 THEN ClientWaitSync(syncs, f) ELSE ""
        resolved == f # 0 /\ poll_resolved(res)
    IN  /\ Alive
        /\ bufs' = [bufs EXCEPT ![b].fence = IF resolved THEN 0 ELSE f]
        /\ syncs' = IF resolved THEN DeleteSync(syncs, f) ELSE syncs
        /\ last' = [Call("poll_mapped_buffer") EXCEPT
                       !.buf = b, !.res = res,
                       !.deleted = IF resolved THEN f ELSE 0,
                       !.ret = (resolved \/ f = 0)]
        /\ UNCHANGED <<next_sync, scvars>>

\* The GL commands gl_destroy_mapped_buffer issues, in order; data is
\* whether the buffer is mapped (buf->data).
destroy_mapped_cmds(data) ==
    <<"DeleteSync", "BindBuffer(PIXEL_UNPACK_BUFFER, pbo)">>
    \o (IF data THEN <<"UnmapBuffer(PIXEL_UNPACK_BUFFER)">> ELSE <<>>)
    \o <<"BindBuffer(PIXEL_UNPACK_BUFFER, 0)", "DeleteBuffers">>

\* A variant of destroyed_buffer that leaves a fence that is not signaled
\* to the driver.
destroyed_buffer_leak(sy, bf, b) ==
    [syncs |-> IF bf[b].fence # 0 /\ sy[bf[b].fence]
               THEN DeleteSync(sy, bf[b].fence) ELSE sy,
     bufs  |-> [i \in DOMAIN bf \ {b} |-> bf[i]]]

\* What gl_destroy_mapped_buffer does to the fence and the buffer b: the
\* fence is deleted, whatever its state (glDeleteSync ignores 0), and the
\* buffer is unmapped, deleted and freed.
destroyed_buffer(sy, bf, b) ==
    [syncs |-> DeleteSync(sy, bf[b].fence),
     bufs  |-> [i \in DOMAIN bf \ {b} |-> bf[i]]]

\* gl_destroy_mapped_buffer of the live buffer b, which is mapped, as every
\* buffer gl_create_mapped_buffer returned is.  (pending records whether the
\* fence was not signaled yet; observation only.)
gl_destroy_mapped_buffer(b) ==
    /\ Alive
    /\ b \in DOMAIN bufs
    /\ syncs' = destroyed_buffer(syncs, bufs, b).syncs
    /\ bufs' = destroyed_buffer(syncs, bufs, b).bufs
    /\ last' = [Call("destroy_mapped_buffer") EXCEPT
                   !.buf = b, !.deleted = bufs[b].fence,
                   !.args = [pending |-> bufs[b].fence # 0
                                         /\ ~syncs[bufs[b].fence],
                             used |-> bufs[b].used],
                   !.cmds = destroy_mapped_cmds(TRUE)]
    /\ UNCHANGED <<next_sync, scvars>>

(***************************************************************************)
(* Formats and textures of the GL backend (ra_gl.c).  GL enums are written *)
(* by name; "0" is the enum value zero.  GL object names are positive      *)
(* integers, 0 is no object (and the default framebuffer).                 *)
(***************************************************************************)

\* The GL context before ra_init_gl: the objects the windowing layer owns
\* are live, nothing is bound.
ForeignTextures == {1}
ForeignFbos == {1}

ContextGL ==
    [caps_fb |-> FALSE, textures |-> ForeignTextures, fbos |-> ForeignFbos,
     programs |-> {}, program |-> 0, active |-> 0, tex_units |-> {},
     image_units |-> {}, ssbo |-> {}, framebuffer |-> 0,
     scissor |-> FALSE, blend |-> FALSE]

\* The name glGen* hands out: one that is not in use.
gen_name(live) == Min((1..(Cardinality(live) + 1)) \ live)

\* One entry of gl_formats[] with what the formats.c helpers say about it:
\* gl_fmt is the struct gl_format, ctype is gl_format_type(), components is
\* gl_format_components(), bytes is gl_bytes_per_pixel() and csize is
\* gl_component_size().
GlEntry(name, iformat, format, type, flags, ctype, components, bytes, csize) ==
    [gl_fmt |-> [name |-> name, internal_format |-> iformat,
                 format |-> format, type |-> type, flags |-> flags],
     ctype |-> ctype, components |-> components, bytes |-> bytes,
     csize |-> csize]

\* The struct ra_format ra_init_gl makes of the table entry e.
ra_format_of(e, caps_fb, depth16) ==
    [name            |-> e.gl_fmt.name,
     priv            |-> e.gl_fmt,
     ctype           |-> e.ctype,
     num_components  |-> e.components,
     pixel_size      |-> e.bytes,
     luminance_alpha |-> e.gl_fmt.format = "GL_LUMINANCE_ALPHA",
     linear_filter   |-> "F_TF" \in e.gl_fmt.flags,
     renderable      |-> "F_CR" \in e.gl_fmt.flags /\ caps_fb,
     component_size  |-> [i \in 1..e.components |->
                            IF "F_F16" \in e.gl_fmt.flags THEN 32
                            ELSE e.csize * 8],
     component_depth |-> [i \in 1..e.components |->
                            IF "F_F16" \in e.gl_fmt.flags THEN 16
                            ELSE IF e.ctype = "UNORM"
                                 THEN Min({e.csize * 8, depth16})
                                 ELSE e.csize * 8],
     special_imgfmt  |-> "0",
     special_imgfmt_desc |-> << >>]

\* struct ra_imgfmt_desc with every field zero; a descriptor names its plane
\* formats by their index in ra->formats, 0 for NULL, and a component is 0
\* (none) or 1..4.
ZeroDesc ==
    [num_planes |-> 0, planes |-> <<0, 0, 0, 0>>,
     components |-> [n \in 1..4 |-> <<0, 0, 0, 0>>],
     chroma_w |-> 0, chroma_h |-> 0, component_bits |-> 0,
     component_pad |-> 0]

\* ra_init_gl, "Special formats for which OpenGL happens to have direct
\* support": fmt is the format being registered, self its place in
\* ra->formats.  special_imgfmt_desc is << >> for NULL.
special_format(fmt, self) ==
    IF fmt.name = "rgb565"
    THEN [fmt EXCEPT !.special_imgfmt = "IMGFMT_RGB565",
                     !.special_imgfmt_desc =
                         <<[ZeroDesc EXCEPT !.num_planes = 1,
                                            !.planes[1] = self,
                                            !.components[1] = <<1, 2, 3, 0>>,
                                            !.chroma_w = 1,
                                            !.chroma_h = 1]>>]
    ELSE IF fmt.name = "appleyp"
    THEN [fmt EXCEPT !.special_imgfmt = "IMGFMT_UYVY",
                     !.special_imgfmt_desc =
                         <<[ZeroDesc EXCEPT !.num_planes = 1,
                                            !.planes[1] = self,
                                            !.components[1] = <<3, 1, 2, 0>>,
                                            !.chroma_w = 1,
                                            !.chroma_h = 1]>>]
    ELSE fmt

\* The entries of the table whose flags meet the context's features.
featured(table, features) ==
    SelectSeq(table, LAMBDA e : e.gl_fmt.flags \cap features # {})

\* ra_init_gl, the format loop: table is gl_formats[], features is
\* gl_format_feature_flags(), caps_fb is MPGL_CAP_FB in gl->mpgl_caps, depth16
\* is gl_determine_16bit_tex_depth().
ra_init_gl(table, features, caps_fb, depth16) ==
    /\ Alive
    /\ formats = << >>
    /\ formats' = [n \in 1..Len(featured(table, features)) |->
                     special_format(
                         ra_format_of(featured(table, features)[n], caps_fb,
                                      depth16), n)]
    /\ gl' = [gl EXCEPT !.caps_fb = caps_fb]
    /\ last' = Call("ra_init_gl")
    /\ UNCHANGED <<texrest, aborted, texs>>

fbo_dummy_format ==
    [name |-> "unknown_fbo",
     priv |-> [name |-> "unknown", internal_format |-> "0",
               format |-> "GL_RGBA", type |-> "0", flags |-> {"F_CR"}],
     ctype |-> "0", num_components |-> 0, pixel_size |-> 0,
     luminance_alpha |-> FALSE, linear_filter |-> FALSE, renderable |-> TRUE,
     component_size |-> << >>, component_depth |-> << >>]

tex_dummy_format ==
    [name |-> "unknown_tex",
     priv |-> [name |-> "unknown", internal_format |-> "0",
               format |-> "GL_RGBA", type |-> "0", flags |-> {"F_TF"}],
     ctype |-> "0", num_components |-> 0, pixel_size |-> 0,
     luminance_alpha |-> FALSE, linear_filter |-> TRUE, renderable |-> TRUE,
     component_size |-> << >>, component_depth |-> << >>]

\* Whether gl_tex_destroy deletes the GL objects of the texture.
own_objects_always(tex_gl) == TRUE
own_objects(tex_gl) == tex_gl.own_objects

\* gl_tex_destroy on the GL context g: the context afterwards and the GL
\* calls made.
gl_tex_destroy(g, tex) ==
    IF own_objects(tex.priv)
    THEN [gl   |-> [g EXCEPT !.fbos = @ \ {tex.priv.fbo},
                             !.textures = @ \ {tex.priv.texture}],
          cmds |-> (IF tex.priv.fbo # 0
                    THEN <<[cmd |-> "DeleteFramebuffers",
                            obj |-> tex.priv.fbo]>>
                    ELSE << >>)
                   \o <<[cmd |-> "DeleteTextures", obj |-> tex.priv.texture]>>]
    ELSE [gl |-> g, cmds |-> << >>]

\* ra_tex_free of the live texture t.
ra_tex_free(t) ==
    /\ Alive
    /\ t \in DOMAIN texs
    /\ gl' = gl_tex_destroy(gl, texs[t]).gl
    /\ texs' = [i \in DOMAIN texs \ {t} |-> texs[i]]
    /\ last' = [Call("tex_destroy") EXCEPT
                   !.args = texs[t],
                   !.cmds = gl_tex_destroy(gl, texs[t]).cmds]
    /\ UNCHANGED <<texrest, aborted, formats>>

\* gl_tex_create: the texture target of the parameters.
tex_target(params) ==
    IF params.non_normalized THEN "GL_TEXTURE_RECTANGLE"
    ELSE CASE params.dimensions = 1 -> "GL_TEXTURE_1D"
           [] params.dimensions = 2 -> "GL_TEXTURE_2D"
           [] OTHER                 -> "GL_TEXTURE_3D"

\* gl_tex_create: the struct ra_tex after glGenTextures gave it the name t.
new_tex(params, t) ==
    [params |-> params,
     priv   |-> [own_objects |-> TRUE, target |-> tex_target(params),
                 texture |-> t, fbo |-> 0,
                 internal_format |-> params.format.priv.internal_format,
                 format |-> params.format.priv.format,
                 type |-> params.format.priv.type]]

\* gl_tex_create: whether a render target is refused for its format.
not_renderable_never(params) == FALSE
not_renderable(params) == ~params.format.renderable

\* gl_tex_create: the completeness check of the framebuffer of tex.
tex_create_checked(g, tex, made, complete) ==
    IF ~complete
    THEN [tex |-> << >>, gl |-> gl_tex_destroy(g, tex).gl,
          cmds |-> made \o gl_tex_destroy(g, tex).cmds, abort |-> ""]
    ELSE [tex |-> <<tex>>, gl |-> g, cmds |-> made, abort |-> ""]

\* gl_tex_create: the framebuffer f is generated and checked.
tex_create_fbo(g, tex, made, f, complete) ==
    tex_create_checked(
        [g EXCEPT !.fbos = @ \cup {f}],
        [tex EXCEPT !.priv.fbo = f],
        made \o <<[cmd |-> "GenFramebuffers", obj |-> f]>>,
        complete)

\* gl_tex_create from the point where the texture tex exists with storage, on
\* the context g in which its texture object is live; made is the GL calls so
\* far, complete is whether glCheckFramebufferStatus reports
\* GL_FRAMEBUFFER_COMPLETE.  The result is the texture returned ("tex", or
\* none for NULL), the context, the GL calls and the assert that fired.
tex_create_target(g, tex, made, complete) ==
    IF ~tex.params.render_dst
    THEN [tex |-> <<tex>>, gl |-> g, cmds |-> made, abort |-> ""]
    ELSE IF not_renderable(tex.params)
    THEN [tex |-> << >>, gl |-> gl_tex_destroy(g, tex).gl,
          cmds |-> made \o gl_tex_destroy(g, tex).cmds, abort |-> ""]
    ELSE IF ~g.caps_fb
    THEN [tex |-> << >>, gl |-> g, cmds |-> made,
          abort |-> "assert(gl->mpgl_caps & MPGL_CAP_FB)"]
    ELSE tex_create_fbo(g, tex, made, gen_name(g.fbos), complete)

\* gl_tex_create up to the creation of the texture object.
tex_create(g, params, complete) ==
    IF params.dimensions \notin 1..3
    THEN [tex |-> << >>, gl |-> g, cmds |-> << >>, abort |-> "abort()"]
    ELSE IF params.non_normalized /\ params.dimensions # 2
    THEN [tex |-> << >>, gl |-> g, cmds |-> << >>,
          abort |-> "assert(params->dimensions == 2)"]
    ELSE tex_create_target(
             [g EXCEPT !.textures = @ \cup {gen_name(g.textures)}],
             new_tex(params, gen_name(g.textures)),
             <<[cmd |-> "GenTextures", obj |-> gen_name(g.textures)]>>,
             complete)

\* The identity a new struct ra_tex gets.
tex_identity == gen_name(DOMAIN texs)

\* What a call that yields the texture record r (none: << >>) leaves in texs.
with_tex(r) ==
    IF r = << >> THEN texs
    ELSE [i \in DOMAIN texs \cup {tex_identity} |->
            IF i = tex_identity THEN r[1] ELSE texs[i]]

\* gl_tex_create.
gl_tex_create(params, complete) ==
    /\ Alive
    /\ aborted' = tex_create(gl, params, complete).abort
    /\ gl' = tex_create(gl, params, complete).gl
    /\ texs' = with_tex(tex_create(gl, params, complete).tex)
    /\ last' = [Call("tex_create") EXCEPT
                   !.args = [params |-> params, complete |-> complete],
                   !.res = IF tex_create(gl, params, complete).tex = << >>
                           THEN "NULL" ELSE "tex",
                   !.entry = IF tex_create(gl, params, complete).tex = << >>
                             THEN 0 ELSE tex_identity,
                   !.cmds = tex_create(gl, params, complete).cmds]
    /\ UNCHANGED <<texrest, formats>>

\* find_similar_format: the index in fs of the first format that matches
\* every given enum, 0 for NULL.
find_similar_format(fs, gl_iformat, gl_format, gl_type) ==
    IF gl_iformat # "0" \/ gl_format # "0" \/ gl_type # "0"
    THEN LET M == {n \in 1..Len(fs) :
                     /\ fs[n].priv.internal_format = gl_iformat
                        \/ gl_iformat = "0"
                     /\ fs[n].priv.format = gl_format \/ gl_format = "0"
                     /\ fs[n].priv.type = gl_type \/ gl_type = "0"}
         IN  IF M = {} THEN 0 ELSE Min(M)
    ELSE 0

\* wrap_tex_fbo: the format the wrapper gets.
wrap_format(fs, is_fbo, gl_iformat, gl_format, gl_type) ==
    IF find_similar_format(fs, gl_iformat, gl_format, gl_type) # 0
    THEN fs[find_similar_format(fs, gl_iformat, gl_format, gl_type)]
    ELSE IF is_fbo THEN fbo_dummy_format ELSE tex_dummy_format

\* wrap_tex_fbo: the struct ra_tex it builds (w and h are left out).
wrapped_tex(fs, gl_obj, is_fbo, gl_target, gl_iformat, gl_format, gl_type) ==
    [params |-> [dimensions |-> 2,
                 format |-> wrap_format(fs, is_fbo, gl_iformat, gl_format,
                                        gl_type),
                 render_dst |-> is_fbo,
                 render_src |-> ~is_fbo,
                 non_normalized |-> gl_target = "GL_TEXTURE_RECTANGLE",
                 external_oes |-> gl_target = "GL_TEXTURE_EXTERNAL_OES"],
     priv   |-> [own_objects |-> FALSE, target |-> gl_target,
                 texture |-> IF is_fbo THEN 0 ELSE gl_obj,
                 fbo |-> IF is_fbo THEN gl_obj ELSE 0,
                 internal_format |-> gl_iformat,
                 format |-> gl_format, type |-> gl_type]]

\* wrap_tex_fbo.
wrap_tex_fbo(gl_obj, is_fbo, gl_target, gl_iformat, gl_format, gl_type) ==
    /\ Alive
    /\ texs' = with_tex(<<wrapped_tex(formats, gl_obj, is_fbo, gl_target,
                                      gl_iformat, gl_format, gl_type)>>)
    /\ last' = [Call(IF is_fbo THEN "wrap_fb" ELSE "wrap_tex") EXCEPT
                   !.entry = tex_identity]
    /\ UNCHANGED <<texrest, aborted, formats, gl>>

ra_create_wrapped_texture(gl_tex, gl_target, gl_iformat, gl_format, gl_type) ==
    wrap_tex_fbo(gl_tex, FALSE, gl_target, gl_iformat, gl_format, gl_type)

ra_create_wrapped_fb(gl_fbo) ==
    wrap_tex_fbo(gl_fbo, TRUE, "0", "GL_RGBA", "0", "0")

(***************************************************************************)
(* Programs and render passes of the GL backend (ra_gl.c).  A GL call is   *)
(* written as a record: idx is the unit, slot or location it names, obj    *)
(* the GL object, arg the enum.                                            *)
(***************************************************************************)
Cmd(c, idx, obj, arg) == [cmd |-> c, idx |-> idx, obj |-> obj, arg |-> arg]

\* The positions in the GL calls cs at which c is called.
calls_of(cs, c) == {n \in 1..Len(cs) : cs[n].cmd = c}

\* The shader stages compile_program compiles for a pass type, in order.
stages_of(type) ==
    IF type = "COMPUTE" THEN <<"GL_COMPUTE_SHADER">>
    ELSE IF type = "RASTER" THEN <<"GL_VERTEX_SHADER", "GL_FRAGMENT_SHADER">>
    ELSE << >>

\* compile_attach_shader on the program prog.
compile_attach_shader(prog, stage) ==
    <<Cmd("CompileShader", 0, 0, stage), Cmd("AttachShader", 0, prog, stage)>>

\* The GL calls of compile_program up to the link.
RECURSIVE compile_stages(_, _, _)
compile_stages(prog, stages, n) ==
    IF n > Len(stages) THEN << >>
    ELSE compile_attach_shader(prog, stages[n])
         \o compile_stages(prog, stages, n + 1)

\* compile_program: ok after the stages and the link; compiled and linked are
\* the statuses the driver reports.
program_ok_linked(stages, compiled, linked) == linked
program_ok(stages, compiled, linked) ==
    (\A n \in 1..Len(stages) : compiled[stages[n]]) /\ linked

\* compile_program on the context g, where glCreateProgram yields prog.
compile_program(g, type, prog, compiled, linked) ==
    IF program_ok(stages_of(type), compiled, linked)
    THEN [prog |-> prog,
          gl   |-> [g EXCEPT !.programs = @ \cup {prog}],
          cmds |-> <<Cmd("CreateProgram", 0, prog, "")>>
                   \o compile_stages(prog, stages_of(type), 1)
                   \o <<Cmd("LinkProgram", 0, prog, "")>>]
    ELSE [prog |-> 0,
          gl   |-> g,
          cmds |-> <<Cmd("CreateProgram", 0, prog, "")>>
                   \o compile_stages(prog, stages_of(type), 1)
                   \o <<Cmd("LinkProgram", 0, prog, ""),
                        Cmd("DeleteProgram", 0, prog, "")>>]

\* load_program: whether the cached binary is tried.  ext is which of
\* glProgramBinary and glGetProgramBinary the context has.
binary_tried(ext, p) == ext.ProgramBinary /\ p.cached_program > 4

\* load_program: whether the program is compiled from source; prog is what
\* the attempt with the binary left.
needs_compile_untried(ext, p, prog) == prog = 0 /\ ~binary_tried(ext, p)
needs_compile(ext, p, prog) == prog = 0

\* load_program, the binary: ans.binary is the link status after
\* glProgramBinary.  The result is the program (0: none), the context and the
\* GL calls.
load_binary(g, p, ans, ext) ==
    IF ~binary_tried(ext, p)
    THEN [prog |-> 0, gl |-> g, cmds |-> << >>]
    ELSE IF ans.binary
    THEN [prog |-> gen_name(g.programs),
          gl   |-> [g EXCEPT !.programs = @ \cup {gen_name(g.programs)}],
          cmds |-> <<Cmd("CreateProgram", 0, gen_name(g.programs), ""),
                     Cmd("ProgramBinary", 0, gen_name(g.programs), "")>>]
    ELSE [prog |-> 0, gl |-> g,
          cmds |-> <<Cmd("CreateProgram", 0, gen_name(g.programs), ""),
                     Cmd("ProgramBinary", 0, gen_name(g.programs), ""),
                     Cmd("DeleteProgram", 0, gen_name(g.programs), "")>>]

\* load_program after the attempt b with the binary; c is what
\* compile_program gives.  cached is the length of *out_cached_data, where
\* ans.size is the size glGetProgramBinary reports.
load_compiled(b, c, ans, ext) ==
    [prog   |-> c.prog,
     gl     |-> c.gl,
     cmds   |-> b.cmds \o c.cmds,
     cached |-> IF ext.GetProgramBinary /\ c.prog # 0 /\ ans.size # 0
                THEN ans.size + 4 ELSE 0]

load_from(b, g, p, ans, ext) ==
    IF needs_compile(ext, p, b.prog)
    THEN load_compiled(b, compile_program(g, p.type, gen_name(g.programs),
                                          ans.compiled, ans.linked),
                       ans, ext)
    ELSE [prog |-> b.prog, gl |-> b.gl, cmds |-> b.cmds, cached |-> 0]

\* load_program.
load_program(g, p, ans, ext) ==
    load_from(load_binary(g, p, ans, ext), g, p, ans, ext)

\* The identity a new struct ra_renderpass gets.
pass_identity == gen_name(DOMAIN passes)

\* The locations glGetUniformLocation reports for the inputs of a new pass:
\* -1 for the inputs the driver says are not active uniforms of the program
\* (ans.inactive).
uniform_locs(params, ans) ==
    [n \in 1..Len(params.inputs) |->
        IF params.inputs[n].name \in ans.inactive THEN -1 ELSE n - 1]

\* What gl_renderpass_create does with the outcome lp of load_program.
renderpass_created(params, lp, args) ==
    /\ passes' = gl_renderpass_create(
                     passes, pass_identity,
                     [params EXCEPT !.cached_program = lp.cached],
                     lp.prog # 0).passes
    /\ pass_gl' = IF lp.prog = 0 THEN pass_gl
                  ELSE [i \in DOMAIN pass_gl \cup {pass_identity} |->
                          IF i = pass_identity
                          THEN [program |-> lp.prog,
                                uniform_loc |-> uniform_locs(params, args.ans)]
                          ELSE pass_gl[i]]
    /\ gl' = lp.gl
    /\ last' = [Call("renderpass_create") EXCEPT
                   !.args = args,
                   !.entry = IF lp.prog = 0 THEN 0 ELSE pass_identity,
                   !.cmds = IF lp.prog = 0
                            THEN lp.cmds \o <<Cmd("DeleteProgram", 0, 0, "")>>
                            ELSE lp.cmds]

\* gl_renderpass_create of the GL backend, called directly: ans is what the
\* driver reports for the binary, the stages and the link.
renderpass_create_call(params, ans, ext) ==
    /\ Alive
    /\ renderpass_created(params, load_program(gl, params, ans, ext),
                          [params |-> params, ans |-> ans, ext |-> ext])
    /\ UNCHANGED <<passrest, aborted>>

\* The same by a caller that keeps no record of its passes.
renderpass_create(params, ans, ext) ==
    renderpass_create_call(params, ans, ext) /\ UNCHANGED held

\* gl_renderpass_destroy of the GL backend, called directly.
renderpass_destroy_call(id) ==
    /\ Alive
    /\ id \in DOMAIN passes
    /\ passes' = gl_renderpass_destroy(passes, id)
    /\ pass_gl' = [i \in DOMAIN pass_gl \ {id} |-> pass_gl[i]]
    /\ gl' = [gl EXCEPT !.programs = @ \ {pass_gl[id].program}]
    /\ last' = [Call("renderpass_destroy") EXCEPT
                   !.cmds = <<Cmd("DeleteProgram", 0, pass_gl[id].program,
                                  "")>>]
    /\ UNCHANGED <<passrest, aborted>>

\* The same by a caller that keeps no record of its passes.
renderpass_destroy(id) == renderpass_destroy_call(id) /\ UNCHANGED held

\* update_uniform: the GL calls for the value val of the input in; loc is
\* the location of the uniform, first_run the marker of the pass.  A texture
\* value is the struct ra_tex, a buffer value the GL buffer.
update_uniform(in, loc, first_run, val) ==
    CASE in.type = "INT"   ->
            IF loc < 0 THEN << >>
            ELSE <<Cmd("Uniform1i", loc, val.data, "INT")>>
      [] in.type = "FLOAT" ->
            IF loc < 0 THEN << >>
            ELSE IF in.dim_m = 1
            THEN <<Cmd(CASE in.dim_v = 1 -> "Uniform1f"
                         [] in.dim_v = 2 -> "Uniform2f"
                         [] in.dim_v = 3 -> "Uniform3f"
                         [] in.dim_v = 4 -> "Uniform4f",
                       loc, val.data, "FLOAT")>>
            ELSE IF in.dim_v = 2 /\ in.dim_m = 2
            THEN <<Cmd("UniformMatrix2fv", loc, val.data, "FLOAT")>>
            ELSE <<Cmd("UniformMatrix3fv", loc, val.data, "FLOAT")>>
      [] in.type = "TEX"   ->
            (IF first_run
             THEN <<Cmd("Uniform1i", loc, in.binding, "TEX")>> ELSE << >>)
            \o <<Cmd("ActiveTexture", in.binding, 0, ""),
                 Cmd("BindTexture", 0, val.data.priv.texture,
                     val.data.priv.target)>>
      [] in.type = "IMG_W" ->
            (IF first_run
             THEN <<Cmd("Uniform1i", loc, in.binding, "IMG_W")>> ELSE << >>)
            \o <<Cmd("BindImageTexture", in.binding, val.data.priv.texture,
                     "GL_WRITE_ONLY")>>
      [] in.type = "SSBO"  ->
            <<Cmd("BindBufferBase", in.binding, val.data,
                  "GL_SHADER_STORAGE_BUFFER")>>

\* A variant of disable_binding that unbinds textures only.
disable_binding_tex_only(in, val) ==
    CASE in.type = "TEX"   ->
            <<Cmd("ActiveTexture", in.binding, 0, ""),
              Cmd("BindTexture", 0, 0, val.data.priv.target)>>
      [] OTHER             -> << >>

\* disable_binding: the GL calls for the value val of the input in.
disable_binding(in, val) ==
    CASE in.type = "TEX"   ->
            <<Cmd("ActiveTexture", in.binding, 0, ""),
              Cmd("BindTexture", 0, 0, val.data.priv.target)>>
      [] in.type = "IMG_W" ->
            <<Cmd("BindImageTexture", in.binding, 0, "GL_WRITE_ONLY")>>
      [] in.type = "SSBO"  ->
            <<Cmd("BindBufferBase", in.binding, 0,
                  "GL_SHADER_STORAGE_BUFFER")>>
      [] OTHER             -> << >>

\* The two loops of gl_renderpass_run over params->values.
RECURSIVE update_uniforms_gl(_, _, _, _)
update_uniforms_gl(pass, pgl, values, n) ==
    IF n > Len(values) THEN << >>
    ELSE update_uniform(pass.params.inputs[values[n].index],
                        pgl.uniform_loc[values[n].index], pass.first_run,
                        values[n])
         \o update_uniforms_gl(pass, pgl, values, n + 1)

RECURSIVE disable_bindings(_, _, _)
disable_bindings(pass, values, n) ==
    IF n > Len(values) THEN << >>
    ELSE disable_binding(pass.params.inputs[values[n].index], values[n])
         \o disable_bindings(pass, values, n + 1)

\* gl_renderpass_run, the raster case.
raster_cmds(pass, target) ==
    <<Cmd("BindFramebuffer", 0, target.priv.fbo, "GL_FRAMEBUFFER"),
      Cmd("Viewport", 0, 0, ""),
      Cmd("Scissor", 0, 0, ""),
      Cmd("Enable", 0, 0, "GL_SCISSOR_TEST")>>
    \o (IF pass.params.enable_blend
        THEN <<Cmd("BlendFuncSeparate", 0, 0, ""),
               Cmd("Enable", 0, 0, "GL_BLEND")>>
        ELSE << >>)
    \o <<Cmd("gl_vao_draw_data", 0, 0, "GL_TRIANGLES"),
         Cmd("Disable", 0, 0, "GL_SCISSOR_TEST"),
         Cmd("Disable", 0, 0, "GL_BLEND"),
         Cmd("BindFramebuffer", 0, 0, "GL_FRAMEBUFFER")>>

\* A variant of compute_cmds without the barrier.
compute_cmds_nobarrier ==
    <<Cmd("DispatchCompute", 0, 0, "")>>

\* gl_renderpass_run, the compute case.
compute_cmds ==
    <<Cmd("DispatchCompute", 0, 0, ""),
      Cmd("MemoryBarrier", 0, 0, "GL_TEXTURE_FETCH_BARRIER_BIT")>>

\* The GL calls of gl_renderpass_run, in order.
run_cmds(pass, pgl, values, target) ==
    <<Cmd("UseProgram", 0, pgl.program, "")>>
    \o update_uniforms_gl(pass, pgl, values, 1)
    \o <<Cmd("ActiveTexture", 0, 0, "")>>
    \o (IF pass.params.type = "RASTER" THEN raster_cmds(pass, target)
        ELSE compute_cmds)
    \o disable_bindings(pass, values, 1)
    \o <<Cmd("ActiveTexture", 0, 0, ""), Cmd("UseProgram", 0, 0, "")>>

\* update_uniform, RA_VARTYPE_FLOAT: whether one of the two abort() calls is
\* reached for the input in whose uniform is at loc.
float_shape_abort(in, loc) ==
    IF loc < 0 THEN FALSE
    ELSE IF in.dim_m = 1 THEN in.dim_v \notin 1..4
    ELSE ~(in.dim_v = 2 /\ in.dim_m = 2) /\ ~(in.dim_v = 3 /\ in.dim_m = 3)

\* The assert or abort update_uniform ends in for the value val of the input
\* in, "" for none.
update_uniform_abort(in, loc, val) ==
    CASE in.type = "INT" ->
            IF in.dim_v * in.dim_m # 1
            THEN "assert(input->dim_v * input->dim_m == 1)" ELSE ""
      [] in.type = "FLOAT" ->
            IF float_shape_abort(in, loc) THEN "abort()" ELSE ""
      [] in.type \in {"TEX", "IMG_W"} ->
            IF ~val.data.params.render_src
            THEN "assert(tex->params.render_src)" ELSE ""
      [] in.type = "SSBO" -> ""
      [] OTHER -> "abort()"

\* The values of a run at which update_uniform does not return.
uniform_aborts(pass, pgl, values) ==
    {n \in 1..Len(values) :
        update_uniform_abort(pass.params.inputs[values[n].index],
                             pgl.uniform_loc[values[n].index],
                             values[n]) # ""}

\* The assert or abort gl_renderpass_run ends in, "" for none.
run_abort(pass, pgl, values, target) ==
    IF uniform_aborts(pass, pgl, values) # {}
    THEN update_uniform_abort(
             pass.params.inputs[
                 values[Min(uniform_aborts(pass, pgl, values))].index],
             pgl.uniform_loc[
                 values[Min(uniform_aborts(pass, pgl, values))].index],
             values[Min(uniform_aborts(pass, pgl, values))])
    ELSE IF pass.params.type = "RASTER" /\ ~target.params.render_dst
    THEN "assert(params->target->params.render_dst)"
    ELSE IF pass.params.type \notin {"RASTER", "COMPUTE"} THEN "abort()"
    ELSE ""

\* What one GL call does to the bindings and switches of the context g.
\* tex_units holds <<unit, target, texture>>, image_units <<unit, texture>>
\* and ssbo <<slot, buffer>> for what is bound.
gl_call(g, c) ==
    CASE c.cmd = "UseProgram"    -> [g EXCEPT !.program = c.obj]
      [] c.cmd = "ActiveTexture" -> [g EXCEPT !.active = c.idx]
      [] c.cmd = "BindTexture"   ->
            [g EXCEPT !.tex_units =
                {b \in @ : ~(b[1] = g.active /\ b[2] = c.arg)}
                \cup (IF c.obj # 0 THEN {<<g.active, c.arg, c.obj>>}
                      ELSE {})]
      [] c.cmd = "BindImageTexture" ->
            [g EXCEPT !.image_units =
                {b \in @ : b[1] # c.idx}
                \cup (IF c.obj # 0 THEN {<<c.idx, c.obj>>} ELSE {})]
      [] c.cmd = "BindBufferBase" ->
            [g EXCEPT !.ssbo =
                {b \in @ : b[1] # c.idx}
                \cup (IF c.obj # 0 THEN {<<c.idx, c.obj>>} ELSE {})]
      [] c.cmd = "BindFramebuffer" -> [g EXCEPT !.framebuffer = c.obj]
      [] c.cmd = "Enable" /\ c.arg = "GL_SCISSOR_TEST" ->
            [g EXCEPT !.scissor = TRUE]
      [] c.cmd = "Enable" /\ c.arg = "GL_BLEND" -> [g EXCEPT !.blend = TRUE]
      [] c.cmd = "Disable" /\ c.arg = "GL_SCISSOR_TEST" ->
            [g EXCEPT !.scissor = FALSE]
      [] c.cmd = "Disable" /\ c.arg = "GL_BLEND" ->
            [g EXCEPT !.blend = FALSE]
      [] OTHER -> g

\* The context after the first n of the GL calls cs.
RECURSIVE gl_calls(_, _, _)
gl_calls(g, cs, n) ==
    IF n = 0 THEN g ELSE gl_call(gl_calls(g, cs, n - 1), cs[n])

\* gl_renderpass_run of the live pass id.  When an assert fires the process
\* ends and the context with it.
renderpass_run(id, values, target) ==
    /\ Alive
    /\ id \in DOMAIN passes
    /\ aborted' = run_abort(passes[id], pass_gl[id], values, target)
    /\ IF run_abort(passes[id], pass_gl[id], values, target) # ""
       THEN /\ UNCHANGED <<passes, gl>>
            /\ last' = [Call("renderpass_run") EXCEPT
                           !.args = [pass |-> id,
                                     type |-> passes[id].params.type,
                                     inputs |-> passes[id].params.inputs,
                                     first_run |-> passes[id].first_run,
                                     values |-> values]]
       ELSE /\ passes' = gl_renderpass_run(
                             program_uniforms(passes, id, values), id)
            /\ gl' = gl_calls(gl, run_cmds(passes[id], pass_gl[id], values,
                                           target),
                              Len(run_cmds(passes[id], pass_gl[id], values,
                                           target)))
            /\ last' = [Call("renderpass_run") EXCEPT
                           !.args = [pass |-> id,
                                     type |-> passes[id].params.type,
                                     inputs |-> passes[id].params.inputs,
                                     first_run |-> passes[id].first_run,
                                     values |-> values],
                           !.cmds = run_cmds(passes[id], pass_gl[id], values,
                                             target)]
    /\ UNCHANGED <<passrest, pass_gl, held>>

(***************************************************************************)
(* The format finders (ra.c).  A finder yields the index in ra->formats of *)
(* the format it returns, 0 for NULL.                                      *)
(***************************************************************************)
\* component_size[i - 1] or component_depth[i - 1] of a format: the arrays
\* are zero beyond the components that were set.
comp(a, i) == IF i \in DOMAIN a THEN a[i] ELSE 0

\* A variant of ra_format_is_regular without the test for padding.
ra_format_is_regular_loose(fmt) ==
    /\ fmt.pixel_size # 0
    /\ fmt.num_components # 0
    /\ \A n \in 2..fmt.num_components :
          /\ comp(fmt.component_size, n) = comp(fmt.component_size, 1)
          /\ comp(fmt.component_depth, n) = comp(fmt.component_depth, 1)

ra_format_is_regular(fmt) ==
    /\ fmt.pixel_size # 0
    /\ fmt.num_components # 0
    /\ \A n \in 2..fmt.num_components :
          /\ comp(fmt.component_size, n) = comp(fmt.component_size, 1)
          /\ comp(fmt.component_depth, n) = comp(fmt.component_depth, 1)
    /\ comp(fmt.component_size, 1) * fmt.num_components = fmt.pixel_size * 8

\* The first index in S, 0 if there is none.
first_of(S) == IF S = {} THEN 0 ELSE Min(S)

ra_find_unorm_format(fs, bytes_per_component, n_components) ==
    first_of({n \in 1..Len(fs) :
        /\ fs[n].ctype = "UNORM"
        /\ fs[n].num_components = n_components
        /\ fs[n].pixel_size = bytes_per_component * n_components
        /\ comp(fs[n].component_depth, 1) = bytes_per_component * 8
        /\ fs[n].linear_filter
        /\ ra_format_is_regular(fs[n])})

ra_find_uint_format(fs, bytes_per_component, n_components) ==
    first_of({n \in 1..Len(fs) :
        /\ fs[n].ctype = "UINT"
        /\ fs[n].num_components = n_components
        /\ fs[n].pixel_size = bytes_per_component * n_components
        /\ comp(fs[n].component_depth, 1) = bytes_per_component * 8
        /\ ra_format_is_regular(fs[n])})

\* sizeof(float) is 4.
ra_find_float16_format(fs, n_components) ==
    first_of({n \in 1..Len(fs) :
        /\ fs[n].ctype = "FLOAT"
        /\ fs[n].num_components = n_components
        /\ fs[n].pixel_size = 4 * n_components
        /\ comp(fs[n].component_depth, 1) = 16
        /\ fs[n].linear_filter
        /\ ra_format_is_regular(fs[n])})

\* A call of one of the finders on the registry.
find_format(fn, b, n) ==
    /\ Alive
    /\ last' = [Call("find_format") EXCEPT
                   !.args = [fn |-> fn, b |-> b, n |-> n],
                   !.entry = CASE fn = "unorm" ->
                                     ra_find_unorm_format(formats, b, n)
                               [] fn = "uint" ->
                                     ra_find_uint_format(formats, b, n)
                               [] fn = "float16" ->
                                     ra_find_float16_format(formats, n)]
    /\ UNCHANGED <<texrest, aborted, formats, gl, texs>>

(***************************************************************************)
(* Image format descriptors (ra.c, ra_get_imgfmt_desc).                    *)
(***************************************************************************)
\* One plane of struct mp_regular_imgfmt: components is padded with zeros.
Plane(components) ==
    [num_components |-> Len(components),
     components |-> [i \in 1..4 |-> comp(components, i)]]

\* struct mp_regular_imgfmt.
Regular(component_size, component_pad, chroma_w, chroma_h, planes) ==
    [component_size |-> component_size, component_pad |-> component_pad,
     num_planes |-> Len(planes), planes |-> planes,
     chroma_w |-> chroma_w, chroma_h |-> chroma_h]

\* What mp_get_regular_imgfmt knows: the pixel formats it describes.
RegularImgfmts ==
    [IMGFMT_420P |-> Regular(1, 0, 2, 2,
                             <<Plane(<<1>>), Plane(<<2>>), Plane(<<3>>)>>),
     IMGFMT_NV12 |-> Regular(1, 0, 2, 2, <<Plane(<<1>>), Plane(<<2, 3>>)>>),
     IMGFMT_420P10 |-> Regular(2, -6, 2, 2,
                             <<Plane(<<1>>), Plane(<<2>>), Plane(<<3>>)>>),
     IMGFMT_P010 |-> Regular(2, 6, 2, 2, <<Plane(<<1>>), Plane(<<2, 3>>)>>),
     IMGFMT_Y16 |-> Regular(2, 0, 1, 1, <<Plane(<<1>>)>>)]

\* mp_get_regular_imgfmt(&regfmt, imgfmt): whether imgfmt is regular.
mp_get_regular_imgfmt(imgfmt) == imgfmt \in DOMAIN RegularImgfmts

\* A variant of find_plane_format that prefers the integer format.
find_plane_format_uint_first(fs, bytes, n_channels) ==
    IF ra_find_uint_format(fs, bytes, n_channels) # 0
    THEN ra_find_uint_format(fs, bytes, n_channels)
    ELSE ra_find_unorm_format(fs, bytes, n_channels)

find_plane_format(fs, bytes, n_channels) ==
    IF ra_find_unorm_format(fs, bytes, n_channels) # 0
    THEN ra_find_unorm_format(fs, bytes, n_channels)
    ELSE ra_find_uint_format(fs, bytes, n_channels)

\* ra_get_imgfmt_desc: "ctype != RA_CTYPE_UNKNOWN && ctype != planes[n]->ctype".
ctype_differs(ctype, fmt) == ctype # "UNKNOWN" /\ ctype # fmt.ctype

\* ra_get_imgfmt_desc, the body of the plane loop for plane n once its format
\* f is found: the descriptor with the plane filled in, or no descriptor.
desc_plane(fs, regfmt, n, res, ctype, f) ==
    IF f = 0 THEN << >>
    ELSE IF /\ res.component_bits > comp(fs[f].component_depth, 1)
            /\ res.component_pad < 0
         THEN << >>
    ELSE IF ctype_differs(ctype, fs[f]) THEN << >>
    ELSE <<[res EXCEPT !.planes[n] = f,
                       !.components[n] =
                           [i \in 1..4 |->
                               IF i <= regfmt.planes[n].num_components
                               THEN regfmt.planes[n].components[i]
                               ELSE 0]]>>

\* ra_get_imgfmt_desc, the plane loop from plane n on; r is the descriptor
\* so far (a sequence of one) or << >> after a "return false".
RECURSIVE desc_planes(_, _, _, _)
desc_planes(fs, regfmt, n, r) ==
    IF r = << >> \/ n > regfmt.num_planes THEN r
    ELSE desc_planes(fs, regfmt, n + 1,
             desc_plane(fs, regfmt, n, r[1],
                        IF n = 1 THEN "UNKNOWN"
                        ELSE fs[r[1].planes[n - 1]].ctype,
                        find_plane_format(fs, regfmt.component_size,
                                          regfmt.planes[n].num_components)))

\* ra_get_imgfmt_desc, the branch of a regular pixel format.
desc_regular(fs, regfmt) ==
    IF desc_planes(fs, regfmt, 1,
           <<[ZeroDesc EXCEPT !.num_planes = regfmt.num_planes,
                              !.component_bits = regfmt.component_size * 8,
                              !.component_pad = regfmt.component_pad]>>)
          = << >>
    THEN << >>
    ELSE <<[desc_planes(fs, regfmt, 1,
              <<[ZeroDesc EXCEPT !.num_planes = regfmt.num_planes,
                                 !.component_bits = regfmt.component_size * 8,
                                 !.component_pad = regfmt.component_pad]>>)[1]
               EXCEPT !.chroma_w = regfmt.chroma_w,
                      !.chroma_h = regfmt.chroma_h]>>

\* A variant of desc_special that finds no format.
desc_special_never(fs, imgfmt) == << >>

\* ra_get_imgfmt_desc, the search for a format that special-cases imgfmt.
desc_special(fs, imgfmt) ==
    IF first_of({n \in 1..Len(fs) : fs[n].special_imgfmt = imgfmt}) = 0
    THEN << >>
    ELSE <<fs[first_of({n \in 1..Len(fs) : fs[n].special_imgfmt = imgfmt})]
               .special_imgfmt_desc[1]>>

\* A variant of the end of ra_get_imgfmt_desc that clears *out on failure.
desc_out_cleared(r, out) ==
    IF r = << >> THEN [ok |-> FALSE, out |-> ZeroDesc]
    ELSE [ok |-> TRUE, out |-> r[1]]

\* ra_get_imgfmt_desc, "supported:" and the "return false" paths.
desc_out(r, out) ==
    IF r = << >> THEN [ok |-> FALSE, out |-> out]
    ELSE [ok |-> TRUE, out |-> r[1]]

\* ra_get_imgfmt_desc(ra, imgfmt, out) on the registry fs: the value
\* returned and *out afterwards.
get_imgfmt_desc(fs, imgfmt, out) ==
    desc_out(IF mp_get_regular_imgfmt(imgfmt)
             THEN desc_regular(fs, RegularImgfmts[imgfmt])
             ELSE desc_special(fs, imgfmt),
             out)

\* ra_get_imgfmt_desc reads through a NULL special_imgfmt_desc: imgfmt is
\* not regular and the first format whose special_imgfmt equals it has no
\* descriptor.
desc_null(fs, imgfmt) ==
    /\ ~mp_get_regular_imgfmt(imgfmt)
    /\ first_of({n \in 1..Len(fs) : fs[n].special_imgfmt = imgfmt}) # 0
    /\ fs[first_of({n \in 1..Len(fs) : fs[n].special_imgfmt = imgfmt})]
          .special_imgfmt_desc = << >>

\* What reading a struct ra_imgfmt_desc at address 0 may give: a fault, or
\* whatever bytes are there.
NullReads ==
    {<< >>,
     <<ZeroDesc>>,
     <<[ZeroDesc EXCEPT !.num_planes = 1, !.planes[1] = 1,
                        !.chroma_w = 1, !.chroma_h = 1]>>}

ra_get_imgfmt_desc(imgfmt, out) ==
    /\ Alive
    /\ IF desc_null(formats, imgfmt)
       THEN \E res \in NullReads :
               /\ aborted' = IF res = << >> THEN "null special_imgfmt_desc"
                             ELSE aborted
               /\ last' = [Call("ra_get_imgfmt_desc") EXCEPT
                              !.args = [imgfmt |-> imgfmt, out |-> out],
                              !.ret = res # << >>,
                              !.values = IF res = << >> THEN <<out>> ELSE res]
       ELSE /\ last' = [Call("ra_get_imgfmt_desc") EXCEPT
                          !.args = [imgfmt |-> imgfmt, out |-> out],
                          !.ret = get_imgfmt_desc(formats, imgfmt, out).ok,
                          !.values =
                              <<get_imgfmt_desc(formats, imgfmt, out).out>>]
            /\ UNCHANGED aborted
    /\ UNCHANGED <<texrest, formats, gl, texs>>

(***************************************************************************)
(* The disk cache of create_pass (shader_cache.c).  disk.dir is whether    *)
(* the cache directory exists, disk.files its files by name.  A file is    *)
(* written as its first strlen(cache_header) bytes (head) and the bytes    *)
(* after them (rest); a binary is a sequence of bytes.  The name of a      *)
(* shader's file is the SHA-256 of entry->total, taken to be free of       *)
(* collisions: the files are named by the total itself.                    *)
(***************************************************************************)
cache_header == "mpv shader cache v1\n"

CacheFile(head, rest) == [head |-> head, rest |-> rest]

gl_sc_set_cache_dir(dir) ==
    /\ Alive
    /\ sc' = [sc EXCEPT !.cache_dir = dir]
    /\ last' = Call("gl_sc_set_cache_dir")
    /\ UNCHANGED others

\* A variant of disk_load that takes the file for a binary whatever it
\* starts with.
disk_load_unchecked(s, d, key, io) ==
    IF s.cache_dir = "" THEN << >>
    ELSE IF key \notin DOMAIN d.files THEN << >>
    ELSE IF ~io.read THEN << >>
    ELSE d.files[key].rest

\* create_pass, "Try to load it from a disk cache": params.cached_program
\* as renderpass_create gets it.  io.read is whether stream_read_file can
\* read the file (it yields an empty bstr if not).
disk_load(s, d, key, io) ==
    IF s.cache_dir = "" THEN << >>
    ELSE IF key \notin DOMAIN d.files THEN << >>
    ELSE IF ~io.read THEN << >>
    ELSE IF d.files[key].head = cache_header THEN d.files[key].rest
    ELSE << >>

\* AV_WL32: the four bytes of v, least significant first.
AV_WL32(v) ==
    <<v % 256, (v \div 256) % 256, (v \div 65536) % 256,
      (v \div 16777216) % 256>>

\* pass->params.cached_program after gl_renderpass_create: the binary
\* load_program got from glGetProgramBinary (ans.binary_format, ans.data),
\* empty if it got none.
program_binary(lp, ans) ==
    IF lp.cached = 0 THEN << >>
    ELSE AV_WL32(ans.binary_format) \o ans.data

\* A variant of binary_differs that rewrites the file every time.
binary_differs_always(loaded, nc) == TRUE

\* create_pass: "!bstr_equals(params.cached_program, nc)".
binary_differs(loaded, nc) == loaded # nc

\* fopen(cache_filename, "wb") and the two fwrite calls on the file system
\* d: io.fopen is whether the file can be opened in an existing directory.
\* The result is the file system and whether the file was opened.
disk_write(d, key, nc, io) ==
    IF d.dir /\ io.fopen
    THEN [disk |-> [d EXCEPT !.files =
                       [k \in DOMAIN d.files \cup {key} |->
                           IF k = key THEN CacheFile(cache_header, nc)
                           ELSE d.files[k]]],
          opened |-> TRUE]
    ELSE [disk |-> d, opened |-> FALSE]

\* create_pass after renderpass_create: pass_ok is whether it gave a pass,
\* loaded is params.cached_program, nc the binary of the pass.  io.mkdirp is
\* whether mp_mkdirp can make the directory.
disk_store(s, d, key, pass_ok, loaded, nc, io) ==
    IF pass_ok /\ s.cache_dir # "" /\ Len(nc) # 0 /\ binary_differs(loaded, nc)
    THEN disk_write([d EXCEPT !.dir = @ \/ io.mkdirp], key, nc, io)
    ELSE [disk |-> d, opened |-> FALSE]

\* The key gl_sc_generate computes for the pending shader ("" if it aborts
\* before): it does not depend on what the backend answers.
cache_key(s, ps, id, type) == gl_sc_generate(s, ps, id, type, TRUE).log.key

\* A dispatch once gl_sc_generate left g and create_pass, if it was called,
\* left the file system st.disk.
dispatch_stored(g, st, args) ==
    /\ dispatched([g EXCEPT !.log.args =
                      [ans |-> args.ans, ext |-> args.ext, io |-> args.io,
                       loaded |-> args.loaded, nc |-> args.nc,
                       opened |-> st.opened]])
    /\ disk' = st.disk

\* A dispatch once gl_sc_generate left g: create_pass is called before the
\* asserts that follow it.
dispatch_generated(g, key, args) ==
    dispatch_stored(g,
        IF g.log.created
        THEN disk_store(sc, disk, key, g.log.create_ok, args.loaded, args.nc,
                        args.io)
        ELSE [disk |-> disk, opened |-> FALSE],
        args)

\* A dispatch where the backend's load_program gives lp should a pass be
\* created.
dispatch_program(type, ans, ext, io, key, loaded, lp) ==
    dispatch_generated(
        [gl_sc_generate(sc, passes, next_pass, type, lp.prog # 0) EXCEPT
            !.log.cmds = lp.cmds],
        key,
        [ans |-> ans, ext |-> ext, io |-> io, loaded |-> loaded,
         nc |-> program_binary(lp, ans)])

\* A dispatch where create_pass, should it be called, passes the binary
\* loaded to the backend.
dispatch_loaded(type, ans, ext, io, key, loaded) ==
    dispatch_program(type, ans, ext, io, key, loaded,
        load_program(gl, [type |-> IF type = "raster" THEN "RASTER"
                                   ELSE "COMPUTE",
                          cached_program |-> Len(loaded)],
                     ans, ext))

\* gl_sc_dispatch_draw or gl_sc_dispatch_compute with the GL backend and the
\* file system: ans is what the driver answers should a program be loaded,
\* ext the binary functions the context has, io what the file system does.
gl_sc_dispatch(type, ans, ext, io) ==
    /\ Alive
    /\ dispatch_loaded(type, ans, ext, io,
                       cache_key(sc, passes, next_pass, type),
                       disk_load(sc, disk,
                                 cache_key(sc, passes, next_pass, type), io))

\* gl_sc_destroy followed by gl_sc_create and gl_sc_set_cache_dir: the
\* player is started anew on the same file system.
gl_sc_destroy(dir) ==
    /\ Alive
    /\ passes' = [i \in DOMAIN passes \ sc_flush_cache(sc.entries).destroyed
                    |-> passes[i]]
    /\ sc' = [gl_sc_create EXCEPT !.cache_dir = dir]
    /\ last' = Call("gl_sc_destroy")
    /\ UNCHANGED <<ra, next_pass, aborted, glvars, disk>>

(***************************************************************************)
(* The callers.  Every specification starts from gl_sc_create and calls    *)
(* the public functions above; they differ in the shaders the caller       *)
(* builds.                                                                 *)
(*   Spec:     a body of at most one line (one of them does not compile),  *)
(*             a blend state, raster and compute passes; at most MaxPool   *)
(*             distinct shaders.                                           *)
(*   SpecUni:  a float and a texture uniform, raster and compute passes;   *)
(*             at most MaxPool distinct shaders.                           *)
(*   SpecFill: up to MaxFill distinct one-line raster shaders, enough to   *)
(*             fill the pool to SC_MAX_ENTRIES and beyond.                 *)
(*   SpecBuf:  mapped buffers used as upload sources and polled, with the  *)
(*             GPU signaling fences at any time; SpecBufLive adds that the *)
(*             caller keeps polling and the GPU gets to every fence.       *)
(***************************************************************************)
DesktopGL ==
    [version |-> 440, glsl_version |-> 440, glsl_es |-> FALSE,
     cap_tex_3d |-> TRUE]

GoodLine == "color.r = 1.0;\n"
BadLine == "color.r = ;\n"
FloatVals == {1, 2}

\* A dispatch the bounded caller may make: of a shader it has dispatched
\* before and that is still in the pool, or of a new one while the pool holds
\* fewer than MaxPool, or one without a vertex format.
WithinPool(type) ==
    \/ Len(sc.entries) < MaxPool
    \/ \E n \in 1..Len(sc.entries) :
          sc.entries[n].source = pending_source(sc, type)
    \/ sc.params.vertex_attribs = 0

\* The GL compiler accepts every body but BadLine.
Compiles == sc.text # BadLine

Init ==
    /\ ra = DesktopGL
    /\ sc = gl_sc_create
    /\ passes = << >>
    /\ next_pass = 1
    /\ aborted = ""
    /\ last = Call("init")
    /\ nfill = 0
    /\ bufs = << >>
    /\ syncs = << >>
    /\ next_sync = 1
    /\ formats = << >>
    /\ gl = ContextGL
    /\ texs = << >>
    /\ pass_gl = << >>
    /\ disk = [dir |-> FALSE, files |-> << >>]
    /\ held = [P |-> ZeroParams, made |-> << >>, freed |-> {}]

AddBody ==
    \E t \in {GoodLine, BadLine} :
        sc.text = "" /\ gl_sc_add(t) /\ UNCHANGED nfill

Blend ==
    /\ ~sc.params.enable_blend
    /\ gl_sc_blend(RA_BLEND("SRC_ALPHA"), RA_BLEND("ONE_MINUS_SRC_ALPHA"),
                   RA_BLEND("ONE"), RA_BLEND("ONE_MINUS_SRC_ALPHA"))
    /\ UNCHANGED nfill

VertexFormat ==
    /\ sc.params.vertex_attribs = 0
    /\ gl_sc_set_vertex_format(1)
    /\ UNCHANGED nfill

Draw ==
    /\ WithinPool("raster")
    /\ gl_sc_dispatch_draw(Compiles)
    /\ UNCHANGED nfill

Compute ==
    /\ WithinPool("compute")
    /\ gl_sc_dispatch_compute(Compiles)
    /\ UNCHANGED nfill

ResetError == sc.error_state /\ gl_sc_reset_error /\ UNCHANGED nfill

Next ==
    \/ AddBody
    \/ Blend
    \/ VertexFormat
    \/ Draw
    \/ Compute
    \/ ResetError

Spec == Init /\ [][Next]_vars

(***************************************************************************)
(* SpecUni.                                                                *)
(***************************************************************************)
UniformF ==
    \E f \in FloatVals :
        /\ Len(find_uniform(sc.uniforms, "exposure").uniforms) <= MaxUniforms
        /\ gl_sc_uniform_f("exposure", f)
        /\ UNCHANGED nfill

UniformTexture ==
    \E tex \in {1} :
        /\ Len(find_uniform(sc.uniforms, "tex").uniforms) <= MaxUniforms
        /\ sc.next_texture_unit <= MaxUnit
        /\ gl_sc_uniform_texture("tex", tex)
        /\ UNCHANGED nfill

NextUni ==
    \/ UniformF
    \/ UniformTexture
    \/ VertexFormat
    \/ Draw
    \/ Compute

SpecUni == Init /\ [][NextUni]_vars

(***************************************************************************)
(* SpecFill.                                                               *)
(***************************************************************************)
\* The body of the k-th one-line shader.
FillLine(k) == "color.r = " \o ToString(k) \o ".0;\n"

\* The GL compiler rejects the first MaxFail one-line shaders.
FillCompiles == \A k \in 1..MaxFail : sc.text # FillLine(k)

\* The caller writes the first shader again, the latest one again, or a new
\* one.
FillBody ==
    \E k \in {1, nfill, nfill + 1} \cap 1..MaxFill :
        /\ sc.text = ""
        /\ gl_sc_add(FillLine(k))
        /\ nfill' = Max({nfill, k})

FillDraw == gl_sc_dispatch_draw(FillCompiles) /\ UNCHANGED nfill

NextFill ==
    \/ FillBody
    \/ VertexFormat
    \/ FillDraw
    \/ ResetError

SpecFill == Init /\ [][NextFill]_vars

(***************************************************************************)
(* SpecBuf and SpecBufLive.                                                *)
(***************************************************************************)
Buffers == 1..MaxBufs

CreateBuffer ==
    \E b \in Buffers, mapped \in BOOLEAN : gl_create_mapped_buffer(b, mapped)

Upload ==
    \E dims \in 1..3, b \in DOMAIN bufs :
        next_sync <= MaxSync /\ gl_tex_upload(dims, b)

\* An upload from plain memory.
UploadPlain == \E dims \in 1..3 : gl_tex_upload(dims, 0)

Signal == \E f \in DOMAIN syncs : GpuSignal(f)

Poll == \E b \in DOMAIN bufs : gl_poll_mapped_buffer(b)

NextBuf ==
    \/ CreateBuffer
    \/ Upload
    \/ UploadPlain
    \/ Signal
    \/ Poll

SpecBuf == Init /\ [][NextBuf]_vars

\* The caller keeps polling every buffer it has, and the GPU gets to every
\* fence.
SpecBufLive ==
    /\ Init
    /\ [][NextBuf]_vars
    /\ \A b \in Buffers : WF_vars(b \in DOMAIN bufs /\ gl_poll_mapped_buffer(b))
    /\ \A f \in 1..MaxSync : WF_vars(GpuSignal(f))

(***************************************************************************)
(* SpecUnits: the caller assembles a shader step by step, a body, then a   *)
(* texture, a write-only image, a storage buffer, a header line, a prelude *)
(* line, a vertex format and blending, and dispatches it after any of the  *)
(* steps.                                                                  *)
(***************************************************************************)
UnitsBody == sc.text = "" /\ gl_sc_add(GoodLine) /\ UNCHANGED nfill

UnitsTexture ==
    /\ sc.text # "" /\ sc.next_texture_unit = 1
    /\ gl_sc_uniform_texture("tex", 1)
    /\ UNCHANGED nfill

UnitsImage ==
    /\ sc.next_texture_unit > 1 /\ sc.next_image_unit = 1
    /\ gl_sc_uniform_image2D_wo("img", 2)
    /\ UNCHANGED nfill

UnitsSsbo ==
    /\ sc.next_image_unit > 1 /\ sc.next_buffer_binding = 1
    /\ gl_sc_ssbo("buf", 1, "float x;")
    /\ UNCHANGED nfill

UnitsHeader ==
    /\ sc.next_buffer_binding > 1 /\ sc.header_text = ""
    /\ gl_sc_hadd("#define X 1\n")
    /\ UNCHANGED nfill

UnitsPrelude ==
    /\ sc.header_text # "" /\ sc.prelude_text = ""
    /\ gl_sc_paddf("#define Y 1\n")
    /\ UNCHANGED nfill

UnitsVertexFormat == sc.prelude_text # "" /\ VertexFormat

UnitsBlend == sc.params.vertex_attribs # 0 /\ Blend

NextUnits ==
    \/ UnitsBody
    \/ UnitsTexture
    \/ UnitsImage
    \/ UnitsSsbo
    \/ UnitsHeader
    \/ UnitsPrelude
    \/ UnitsVertexFormat
    \/ UnitsBlend
    \/ Draw
    \/ Compute

SpecUnits == Init /\ [][NextUnits]_vars

(***************************************************************************)
(* SpecClash: the caller declares the float x either as a uniform of the   *)
(* cache or by a line of prelude text, with or without a body, and         *)
(* dispatches.                                                             *)
(***************************************************************************)
ClashLine == "uniform float x;\n"

ClashUniform ==
    /\ sc.uniforms = << >> /\ sc.prelude_text = ""
    /\ gl_sc_uniform_f("x", 1)
    /\ UNCHANGED nfill

ClashPrelude ==
    /\ sc.uniforms = << >> /\ sc.prelude_text = ""
    /\ gl_sc_paddf(ClashLine)
    /\ UNCHANGED nfill

ClashBody == sc.text = "" /\ gl_sc_add(GoodLine) /\ UNCHANGED nfill

NextClash ==
    \/ ClashUniform
    \/ ClashPrelude
    \/ ClashBody
    \/ Blend
    \/ VertexFormat
    \/ Draw
    \/ Compute

SpecClash == Init /\ [][NextClash]_vars

(***************************************************************************)
(* SpecLayout: the caller dispatches shaders with one of its vertex        *)
(* layouts, which differ in the attributes or only in their offsets and    *)
(* the stride.                                                             *)
(***************************************************************************)
LayoutFormat ==
    \E entries \in DOMAIN VertexLayouts :
        /\ sc.params.vertex_attribs = 0
        /\ gl_sc_set_vertex_format(entries)
        /\ UNCHANGED nfill

NextLayout ==
    \/ AddBody
    \/ LayoutFormat
    \/ Draw
    \/ Compute

SpecLayout == Init /\ [][NextLayout]_vars

(***************************************************************************)
(* SpecNames: the caller declares the names "a" and "b", each as a         *)
(* texture, an image, a storage buffer or a float, up to three textures    *)
(* and two images and buffers, and dispatches into the empty pool; after   *)
(* the dispatch it declares textures only.                                 *)
(***************************************************************************)
UniformNames == {"a", "b"}

NamesTexture ==
    \E name \in UniformNames :
        /\ sc.next_texture_unit <= 3
        /\ gl_sc_uniform_texture(name, 1)
        /\ UNCHANGED nfill

NamesImage ==
    \E name \in UniformNames :
        /\ sc.entries = << >> /\ sc.next_image_unit <= 2
        /\ gl_sc_uniform_image2D_wo(name, 2)
        /\ UNCHANGED nfill

NamesSsbo ==
    \E name \in UniformNames :
        /\ sc.entries = << >> /\ sc.next_buffer_binding <= 2
        /\ gl_sc_ssbo(name, 1, "float x;")
        /\ UNCHANGED nfill

NamesFloat ==
    \E name \in UniformNames :
        /\ sc.entries = << >>
        /\ \A n \in 1..Len(sc.uniforms) :
              sc.uniforms[n].input.name = name =>
                  sc.uniforms[n].input.type # "float"
        /\ gl_sc_uniform_f(name, 1)
        /\ UNCHANGED nfill

NamesDraw ==
    /\ sc.entries = << >>
    /\ sc.params.vertex_attribs # 0
    /\ gl_sc_dispatch_draw(TRUE)
    /\ UNCHANGED nfill

NextNames ==
    \/ NamesTexture
    \/ NamesImage
    \/ NamesSsbo
    \/ NamesFloat
    \/ VertexFormat
    \/ NamesDraw

SpecNames == Init /\ [][NextNames]_vars

(***************************************************************************)
(* SpecExt: a caller who sets the vertex format, writes the latest         *)
(* one-line shader again or a new one, and dispatches it, with a compiler  *)
(* that accepts every shader.  The caller enables extensions before the    *)
(* first shader and declares an image (which enables one) while the pool   *)
(* holds one entry, at the start and after a flush.                        *)
(***************************************************************************)
ExtNames == {"GL_ARB_gpu_shader5", "GL_ARB_shader_image_load_store"}

ExtEnable ==
    \E name \in ExtNames :
        /\ sc.entries = << >> /\ sc.params.vertex_attribs = 0
        /\ gl_sc_enable_extension(name)
        /\ UNCHANGED nfill

ExtImage ==
    /\ Len(sc.entries) = 1
    /\ sc.text # "" /\ sc.next_image_unit = 1
    /\ gl_sc_uniform_image2D_wo("img", 1)
    /\ UNCHANGED nfill

ExtBody ==
    \E k \in {nfill, nfill + 1} \cap 1..MaxFill :
        /\ sc.params.vertex_attribs # 0 /\ sc.text = ""
        /\ gl_sc_add(FillLine(k))
        /\ nfill' = k

ExtDraw == sc.text # "" /\ gl_sc_dispatch_draw(TRUE) /\ UNCHANGED nfill

NextExt ==
    \/ ExtBody
    \/ VertexFormat
    \/ ExtDraw
    \/ ExtEnable
    \/ ExtImage

SpecExt == Init /\ [][NextExt]_vars

(***************************************************************************)
(* SpecBufFree: as SpecBuf, and the caller destroys the buffers it has,    *)
(* whether it polled them or not.                                          *)
(***************************************************************************)
DestroyBuffer == \E b \in DOMAIN bufs : gl_destroy_mapped_buffer(b)

NextBufFree ==
    \/ CreateBuffer
    \/ Upload
    \/ UploadPlain
    \/ Signal
    \/ Poll
    \/ DestroyBuffer

SpecBufFree == Init /\ [][NextBufFree]_vars

(***************************************************************************)
(* SpecTex: the backend is initialised with some format table, then        *)
(* textures are created, the windowing layer's texture and framebuffers    *)
(* are wrapped, and textures are destroyed; at most MaxTex at a time.      *)
(***************************************************************************)
GlCandidates ==
    {GlEntry("rgba8", "GL_RGBA8", "GL_RGBA", "GL_UNSIGNED_BYTE",
             {"F_CR", "F_TF", "F_GL3"}, "UNORM", 4, 4, 1),
     GlEntry("rgba", "GL_RGBA", "GL_RGBA", "GL_UNSIGNED_BYTE",
             {"F_TF", "F_ES2"}, "UNORM", 4, 4, 1)}

\* The format tables: up to MaxFormats entries.
GlTables == UNION {[1..n -> GlCandidates] : n \in 1..MaxFormats}

GlFeatures == {{"F_GL3"}, {"F_GL3", "F_ES2"}}

RaInit ==
    \E table \in GlTables, features \in GlFeatures, caps_fb \in BOOLEAN :
        ra_init_gl(table, features, caps_fb, 16)

\* The parameters the callers create textures with: of a registered format,
\* with the dimensions the asserts require.
TexParams ==
    {p \in [dimensions : 1..2,
            format : {formats[n] : n \in 1..Len(formats)},
            render_dst : BOOLEAN, render_src : {TRUE},
            non_normalized : BOOLEAN, external_oes : {FALSE}] :
        p.non_normalized => p.dimensions = 2}

TexCreate ==
    \E params \in TexParams, complete \in BOOLEAN :
        /\ Cardinality(DOMAIN texs) < MaxTex
        /\ gl_tex_create(params, complete)

WrapTexture ==
    \E t \in ForeignTextures,
       target \in {"GL_TEXTURE_2D", "GL_TEXTURE_RECTANGLE"},
       hint \in {<<"GL_RGBA8", "GL_RGBA", "GL_UNSIGNED_BYTE">>,
                 <<"0", "0", "0">>} :
        /\ Cardinality(DOMAIN texs) < MaxTex
        /\ formats # << >>
        /\ ra_create_wrapped_texture(t, target, hint[1], hint[2], hint[3])

WrapFb ==
    \E f \in ForeignFbos \cup {0} :
        /\ Cardinality(DOMAIN texs) < MaxTex
        /\ formats # << >>
        /\ ra_create_wrapped_fb(f)

TexDestroy == \E t \in DOMAIN texs : ra_tex_free(t)

NextTex ==
    \/ RaInit
    \/ TexCreate
    \/ WrapTexture
    \/ WrapFb
    \/ TexDestroy

SpecTex == Init /\ [][NextTex]_vars

(***************************************************************************)
(* SpecProg: render passes are created directly on the GL backend, with or *)
(* without a cached binary, the driver accepting or rejecting the binary,  *)
(* each stage and the link; and destroyed.  At most MaxPasses at a time.   *)
(***************************************************************************)
Stages == {"GL_VERTEX_SHADER", "GL_FRAGMENT_SHADER", "GL_COMPUTE_SHADER"}

\* cached_program is the length of the binary the caller passes.
ProgParams ==
    [type : {"RASTER", "COMPUTE"}, cached_program : {0, 4, 8},
     inputs : {<< >>}, enable_blend : {FALSE}]

DriverAnswers ==
    [binary : BOOLEAN, compiled : [Stages -> BOOLEAN], linked : BOOLEAN,
     size : {0, 4}, inactive : {{}}]

\* The context has both glProgramBinary and glGetProgramBinary, or neither.
BinaryExt ==
    {[ProgramBinary |-> b, GetProgramBinary |-> b] : b \in BOOLEAN}

ProgCreate ==
    \E params \in ProgParams, ans \in DriverAnswers, ext \in BinaryExt :
        /\ Cardinality(DOMAIN passes) < MaxPasses
        /\ renderpass_create(params, ans, ext)

ProgDestroy == \E id \in DOMAIN passes : renderpass_destroy(id)

NextProg ==
    \/ ProgCreate
    \/ ProgDestroy

SpecProg == Init /\ [][NextProg]_vars

(***************************************************************************)
(* SpecRun: render passes with texture, image, buffer and float inputs are *)
(* created on the GL backend and run, each run supplying values for some   *)
(* of the inputs; between the calls the caller changes the GL state        *)
(* itself.  At most MaxPasses passes at a time.                            *)
(***************************************************************************)
In(name, type, binding) ==
    [name |-> name, type |-> type, dim_v |-> 1, dim_m |-> 1,
     binding |-> binding]

\* The passes of the caller: a compute pass with a texture, an image and a
\* storage buffer, and raster passes with two textures and a float, with and
\* without blending.
RunParams ==
    {[type |-> "COMPUTE", cached_program |-> 0, enable_blend |-> FALSE,
      inputs |-> <<In("tex0", "TEX", 0), In("img", "IMG_W", 0),
                   In("buf", "SSBO", 0)>>]}
    \cup
    {[type |-> "RASTER", cached_program |-> 0, enable_blend |-> blend,
      inputs |-> <<In("tex0", "TEX", 0), In("tex1", "TEX", 1),
                   In("f", "FLOAT", 0)>>] : blend \in BOOLEAN}

\* The driver accepts every shader.
GoodAnswers ==
    [binary |-> TRUE, compiled |-> [st \in Stages |-> TRUE],
     linked |-> TRUE, size |-> 0, inactive |-> {}]

RunCreate ==
    \E params \in RunParams :
        /\ Cardinality(DOMAIN passes) < MaxPasses
        /\ renderpass_create(params, GoodAnswers,
                             [ProgramBinary |-> FALSE,
                              GetProgramBinary |-> FALSE])

\* The texture of the windowing layer, wrapped, and its framebuffer, wrapped.
RunTexture(target) ==
    wrapped_tex(<< >>, Min(ForeignTextures), FALSE, target, "0", "0", "0")
RunTarget ==
    wrapped_tex(<< >>, Min(ForeignFbos), TRUE, "0", "GL_RGBA", "0", "0")

\* The value a run supplies for the n-th input in.
ValueOf(in, n) ==
    [index |-> n,
     data  |-> CASE in.type = "TEX" /\ in.binding = 0 ->
                        RunTexture("GL_TEXTURE_2D")
                 [] in.type = "TEX" /\ in.binding # 0 ->
                        RunTexture("GL_TEXTURE_RECTANGLE")
                 [] in.type = "IMG_W" -> RunTexture("GL_TEXTURE_2D")
                 [] OTHER -> 1]

\* The values for the inputs whose index is in S, in order.
RECURSIVE ValuesFor(_, _, _)
ValuesFor(inputs, S, n) ==
    IF n > Len(inputs) THEN << >>
    ELSE (IF n \in S THEN <<ValueOf(inputs[n], n)>> ELSE << >>)
         \o ValuesFor(inputs, S, n + 1)

Run ==
    \E id \in DOMAIN passes :
        \E S \in SUBSET (1..Len(passes[id].params.inputs)) :
            renderpass_run(id, ValuesFor(passes[id].params.inputs, S, 1),
                           RunTarget)

\* The GL calls the caller makes itself between the passes.
CallerCalls ==
    {<<Cmd("Enable", 0, 0, "GL_BLEND"),
       Cmd("Enable", 0, 0, "GL_SCISSOR_TEST")>>,
     <<Cmd("BindFramebuffer", 0, Min(ForeignFbos), "GL_FRAMEBUFFER")>>}

CallerGL ==
    \E cs \in CallerCalls :
        /\ Alive
        /\ gl' = gl_calls(gl, cs, Len(cs))
        /\ last' = [Call("caller_gl") EXCEPT !.cmds = cs]
        /\ UNCHANGED <<passrest, aborted, passes, pass_gl, held>>

RunDestroy == \E id \in DOMAIN passes : renderpass_destroy(id)

NextRun ==
    \/ RunCreate
    \/ Run
    \/ CallerGL
    \/ RunDestroy

SpecRun == Init /\ [][NextRun]_vars

(***************************************************************************)
(* SpecFmt: a backend registers up to MaxReg formats, regular and not,     *)
(* and the finders are called on the registry.                             *)
(***************************************************************************)
\* A struct ra_format as a backend fills it in.
Fmt(name, ctype, sizes, depths, pixel_size, linear_filter) ==
    [name |-> name, priv |-> [name |-> name], ctype |-> ctype,
     num_components |-> Len(sizes), pixel_size |-> pixel_size,
     luminance_alpha |-> FALSE, linear_filter |-> linear_filter,
     renderable |-> FALSE, component_size |-> sizes,
     component_depth |-> depths]

FmtCandidates ==
    {Fmt("r8", "UNORM", <<8>>, <<8>>, 1, TRUE),
     Fmt("rgba8", "UNORM", <<8, 8, 8, 8>>, <<8, 8, 8, 8>>, 4, TRUE),
     Fmt("rgba8_nearest", "UNORM", <<8, 8, 8, 8>>, <<8, 8, 8, 8>>, 4, FALSE),
     Fmt("r8_wide", "UNORM", <<16>>, <<8>>, 1, TRUE),
     Fmt("rg8_uneven", "UNORM", <<8, 8>>, <<8, 4>>, 2, TRUE),
     Fmt("r10", "UNORM", <<16>>, <<10>>, 2, TRUE),
     Fmt("r8ui", "UINT", <<8>>, <<8>>, 1, FALSE),
     Fmt("r16f", "FLOAT", <<32>>, <<16>>, 4, TRUE),
     Fmt("r32f", "FLOAT", <<32>>, <<32>>, 4, TRUE)}

FmtRegister ==
    \E n \in 1..MaxReg :
        \E fs \in [1..n -> FmtCandidates] :
            /\ Alive
            /\ formats = << >>
            /\ formats' = fs
            /\ last' = Call("register_formats")
            /\ UNCHANGED <<texrest, aborted, gl, texs>>

FindUnorm == \E b \in 1..2, n \in 1..4 : find_format("unorm", b, n)

FindUint == \E b \in 1..2, n \in 1..4 : find_format("uint", b, n)

FindFloat16 == \E n \in 1..4 : find_format("float16", 0, n)

NextFmt ==
    \/ FmtRegister
    \/ FindUnorm
    \/ FindUint
    \/ FindFloat16

SpecFmt == Init /\ [][NextFmt]_vars

(***************************************************************************)
(* SpecImg: the backend is initialised with some selection of the format   *)
(* table and some 16 bit texture depth, then image format descriptors are  *)
(* asked for, into a descriptor that is zero or holds an earlier result.   *)
(***************************************************************************)
\* Entries of gl_formats[], in the table's order.
ImgEntries ==
    <<GlEntry("r8", "GL_R8", "GL_RED", "GL_UNSIGNED_BYTE",
              {"F_CR", "F_TF", "F_GL3"}, "UNORM", 1, 1, 1),
      GlEntry("rg8", "GL_RG8", "GL_RG", "GL_UNSIGNED_BYTE",
              {"F_CR", "F_TF", "F_GL3"}, "UNORM", 2, 2, 1),
      GlEntry("r16", "GL_R16", "GL_RED", "GL_UNSIGNED_SHORT",
              {"F_CR", "F_TF", "F_GL3"}, "UNORM", 1, 2, 2),
      GlEntry("rg16", "GL_RG16", "GL_RG", "GL_UNSIGNED_SHORT",
              {"F_CR", "F_TF", "F_GL3"}, "UNORM", 2, 4, 2),
      GlEntry("r8ui", "GL_R8UI", "GL_RED_INTEGER", "GL_UNSIGNED_BYTE",
              {"F_CR", "F_GL3"}, "UINT", 1, 1, 1),
      GlEntry("rg8ui", "GL_RG8UI", "GL_RG_INTEGER", "GL_UNSIGNED_BYTE",
              {"F_CR", "F_GL3"}, "UINT", 2, 2, 1),
      GlEntry("r16ui", "GL_R16UI", "GL_RED_INTEGER", "GL_UNSIGNED_SHORT",
              {"F_CR", "F_GL3"}, "UINT", 1, 2, 2),
      GlEntry("rg16ui", "GL_RG16UI", "GL_RG_INTEGER", "GL_UNSIGNED_SHORT",
              {"F_CR", "F_GL3"}, "UINT", 2, 4, 2),
      GlEntry("rgb565", "GL_RGB", "GL_RGB", "GL_UNSIGNED_SHORT_5_6_5",
              {"F_TF", "F_GL3"}, "UNORM", 3, 2, 2),
      GlEntry("appleyp", "GL_RGB", "GL_RGB_422_APPLE",
              "GL_UNSIGNED_SHORT_8_8_APPLE", {"F_TF", "F_APPL"}, "UNORM",
              3, 2, 2)>>

\* The tables a context's features leave of ImgEntries.
ImgTables ==
    {SelectSeq(ImgEntries, LAMBDA e : e.gl_fmt.name \in S) :
        S \in SUBSET {ImgEntries[n].gl_fmt.name : n \in 1..Len(ImgEntries)}}

\* The results of gl_determine_16bit_tex_depth.
ImgDepth16 == {16, 10}

ImgInit ==
    \E table \in ImgTables, depth16 \in ImgDepth16 :
        ra_init_gl(table, {"F_GL3", "F_APPL"}, TRUE, depth16)

\* The pixel formats asked for: the regular ones, the two a GL format can
\* special-case, and one that is neither.
ImgFmts ==
    DOMAIN RegularImgfmts \cup {"IMGFMT_RGB565", "IMGFMT_UYVY", "IMGFMT_VDPAU"}

\* What the caller's descriptor holds before the call.
ImgOuts ==
    {ZeroDesc,
     [ZeroDesc EXCEPT !.num_planes = 1, !.planes[1] = 1,
                      !.components[1] = <<4, 0, 0, 0>>,
                      !.chroma_w = 1, !.chroma_h = 1,
                      !.component_bits = 8]}

GetImgfmtDesc ==
    \E imgfmt \in ImgFmts, out \in ImgOuts : ra_get_imgfmt_desc(imgfmt, out)

NextImg ==
    \/ ImgInit
    \/ GetImgfmtDesc

SpecImg == Init /\ [][NextImg]_vars

(***************************************************************************)
(* SpecImgNone: the caller asks for pixel formats that are not regular,    *)
(* IMGFMT_NONE (0) among them.                                             *)
(***************************************************************************)
ImgFmtsNone == {"0", "IMGFMT_RGB565", "IMGFMT_UYVY", "IMGFMT_VDPAU"}

GetImgfmtDescNone ==
    \E imgfmt \in ImgFmtsNone, out \in ImgOuts :
        ra_get_imgfmt_desc(imgfmt, out)

NextImgNone ==
    \/ ImgInit
    \/ GetImgfmtDescNone

SpecImgNone == Init /\ [][NextImgNone]_vars

(***************************************************************************)
(* SpecDisk: a cache with a cache directory (or none) dispatches raster    *)
(* shaders of at most one line; the driver accepts or rejects binaries and *)
(* returns one of two binaries or none; directory creation, opening and    *)
(* reading fail at will; files are removed or replaced by files of another *)
(* version; the player is restarted.  At most MaxDisk passes are created.  *)
(***************************************************************************)
CacheDir == "~~/cache"

\* What the driver answers: the stages compile or not, and the link succeeds
\* if they do.
DiskAnswers ==
    {[binary |-> b, compiled |-> [st \in Stages |-> c], linked |-> TRUE,
      size |-> Len(data), binary_format |-> 1, data |-> data] :
        b \in BOOLEAN, c \in BOOLEAN, data \in {<< >>, <<7>>, <<8>>}}

DiskIO == [read : BOOLEAN, mkdirp : BOOLEAN, fopen : BOOLEAN]

SetCacheDir ==
    /\ sc.cache_dir = ""
    /\ passes = << >>
    /\ gl_sc_set_cache_dir(CacheDir)
    /\ UNCHANGED nfill

DiskBody == sc.text = "" /\ gl_sc_add(GoodLine) /\ UNCHANGED nfill

DiskDraw ==
    \E ans \in DiskAnswers, ext \in BinaryExt, io \in DiskIO :
        /\ sc.params.vertex_attribs # 0
        /\ next_pass <= MaxDisk
        /\ gl_sc_dispatch("raster", ans, ext, io)
        /\ UNCHANGED nfill

Restart ==
    /\ sc.entries # << >>
    /\ next_pass <= MaxDisk
    /\ gl_sc_destroy(sc.cache_dir)
    /\ UNCHANGED nfill

\* Someone removes a cache file.
FileRemoved ==
    \E k \in DOMAIN disk.files :
        /\ Alive
        /\ disk' = [disk EXCEPT !.files =
                       [j \in DOMAIN disk.files \ {k} |-> disk.files[j]]]
        /\ last' = Call("unlink")
        /\ UNCHANGED <<ra, sc, passes, next_pass, aborted, nfill, glvars>>

\* A player with another cache version leaves its file.
FileOtherVersion ==
    \E k \in DOMAIN disk.files :
        /\ Alive
        /\ disk.files[k].head = cache_header
        /\ disk' = [disk EXCEPT !.files[k].head = "mpv shader cache v0\n"]
        /\ last' = Call("other_version")
        /\ UNCHANGED <<ra, sc, passes, next_pass, aborted, nfill, glvars>>

NextDisk ==
    \/ SetCacheDir
    \/ DiskBody
    \/ VertexFormat
    \/ DiskDraw
    \/ ResetError
    \/ Restart
    \/ FileRemoved
    \/ FileOtherVersion

SpecDisk == Init /\ [][NextDisk]_vars

(***************************************************************************)
(* SpecShape: compute passes with one int or float input are created on    *)
(* the GL backend, the input a scalar, a vector of 4 or 5, or a matrix of  *)
(* 2x2, 3x3, 2x3 or 4x4, the driver reporting the uniform as active or     *)
(* not, and run with or without a value for it.  One pass at a time.       *)
(***************************************************************************)
\* The shapes of the caller's inputs, as <<dim_v, dim_m>>.
Shapes == {<<1, 1>>, <<4, 1>>, <<5, 1>>, <<2, 2>>, <<3, 3>>, <<2, 3>>, <<4, 4>>}

ShapeParams ==
    {[type |-> "COMPUTE", cached_program |-> 0, enable_blend |-> FALSE,
      inputs |-> <<[In("u", t, 0) EXCEPT !.dim_v = sh[1], !.dim_m = sh[2]]>>] :
        t \in {"INT", "FLOAT"}, sh \in Shapes}

ShapeCreate ==
    \E params \in ShapeParams, inactive \in {{}, {"u"}} :
        /\ DOMAIN passes = {}
        /\ renderpass_create(params,
                             [GoodAnswers EXCEPT !.inactive = inactive],
                             [ProgramBinary |-> FALSE,
                              GetProgramBinary |-> FALSE])

ShapeRun ==
    \E id \in DOMAIN passes :
        \E S \in SUBSET (1..Len(passes[id].params.inputs)) :
            renderpass_run(id, ValuesFor(passes[id].params.inputs, S, 1),
                           RunTarget)

NextShape ==
    \/ ShapeCreate
    \/ ShapeRun
    \/ RunDestroy

SpecShape == Init /\ [][NextShape]_vars

(***************************************************************************)
(* SpecCopy: a caller keeps one struct ra_renderpass_params P, creates     *)
(* render passes from it on the GL backend, runs and destroys them, and    *)
(* overwrites P between the calls.  held.P is the caller's struct,         *)
(* held.made the value P had when each live pass was created from it, and  *)
(* held.freed, for each destroyed pass, that value and the inputs the pass *)
(* had when it was destroyed.  One pass at a time.                         *)
(***************************************************************************)
CopyParams == RunParams

\* The caller overwrites its struct.
CopyChange ==
    \E params \in CopyParams \ {held.P} :
        /\ Alive
        /\ held' = [held EXCEPT !.P = params]
        /\ last' = Call("caller_params")
        /\ UNCHANGED <<passrest, aborted, passes, pass_gl, gl>>

\* The driver links the program or does not.
CopyCreate ==
    \E linked \in BOOLEAN :
        /\ held.P \in CopyParams
        /\ DOMAIN passes = {}
        /\ renderpass_create_call(held.P,
                                  [GoodAnswers EXCEPT !.linked = linked],
                                  [ProgramBinary |-> FALSE,
                                   GetProgramBinary |-> FALSE])
        /\ held' = [held EXCEPT !.made =
                       [id \in DOMAIN passes' |->
                           IF id \in DOMAIN passes THEN @[id] ELSE held.P]]

CopyRun ==
    \E id \in DOMAIN passes :
        \E S \in SUBSET (1..Len(passes[id].params.inputs)) :
            renderpass_run(id, ValuesFor(passes[id].params.inputs, S, 1),
                           RunTarget)

CopyDestroy ==
    \E id \in DOMAIN passes :
        /\ renderpass_destroy_call(id)
        /\ held' = [held EXCEPT
                       !.made = [i \in DOMAIN @ \ {id} |-> @[i]],
                       !.freed = @ \cup {[P |-> held.made[id],
                                         inputs |-> passes[id].params.inputs]}]

NextCopy ==
    \/ CopyChange
    \/ CopyCreate
    \/ CopyRun
    \/ CopyDestroy

SpecCopy == Init /\ [][NextCopy]_vars

(***************************************************************************)
(* Properties.                                                             *)
(***************************************************************************)
\* A step that is a call of gl_sc_dispatch_draw or gl_sc_dispatch_compute.
IsDispatch == last'.op \in {"raster", "compute"}

\* The passes the entries es hold.
PassesOf(es) == {es[n].pass : n \in 1..Len(es)} \ {0}

\* C1: whatever shader-cache operations were called, the pool holds between
\* 0 and SC_MAX_ENTRIES entries, entries without a pass included.
C1_PoolBounded == Len(sc.entries) \in 0..SC_MAX_ENTRIES

\* The pool is full and one of its entries has no pass.
C1_Witness ==
    /\ Len(sc.entries) = SC_MAX_ENTRIES
    /\ \E n \in 1..Len(sc.entries) : sc.entries[n].pass = 0

\* C2: a dispatch that misses while the pool holds SC_MAX_ENTRIES entries
\* destroys the pass of every entry and leaves the pool with the new entry
\* alone; a miss below capacity and a hit keep every entry and its pass.
C2_FlushAtCapacity ==
    [][IsDispatch /\ aborted' = "" =>
         IF ~last'.hit /\ Len(sc.entries) = SC_MAX_ENTRIES
         THEN /\ Len(sc'.entries) = 1
              /\ sc'.entries[1].total = last'.key
              /\ last'.entry = 1
              /\ PassesOf(sc.entries) \cap DOMAIN passes' = {}
              /\ sc'.entries[1].pass \notin PassesOf(sc.entries)
         ELSE /\ Len(sc'.entries) = Len(sc.entries) + (IF last'.hit THEN 0 ELSE 1)
              /\ \A n \in 1..Len(sc.entries) :
                    /\ sc'.entries[n].total = sc.entries[n].total
                    /\ sc'.entries[n].pass = sc.entries[n].pass
              /\ PassesOf(sc.entries) \subseteq DOMAIN passes'
              /\ DOMAIN passes \subseteq DOMAIN passes']_vars

\* A miss at capacity has just flushed the pool.
C2_Witness ==
    /\ last.op = "raster"
    /\ ~last.hit
    /\ last.pre_n = SC_MAX_ENTRIES
    /\ last.destroyed # {}
    /\ Len(sc.entries) = 1

\* The texts and the uniform declarations of a shader's inputs, without the
\* pass type, the blend state, the vertex layout and the extensions.
TextAndDecls(src) ==
    <<src.prelude_text, src.header_text, src.text,
      [n \in 1..Len(src.decls) |->
          <<src.decls[n].name, src.decls[n].glsl_type, src.decls[n].type>>]>>

\* C3 (as stated): a dispatch whose accumulated prelude, header and body
\* text and uniform declarations are byte-identical to those of an earlier
\* dispatch is a cache hit.
C3_SameTextHits ==
    [][IsDispatch /\ aborted' = "" =>
         \A n \in 1..Len(sc.entries) :
            TextAndDecls(sc.entries[n].source)
                = TextAndDecls(pending_source(sc, last'.type)) => last'.hit]_vars

\* C3 (amended): a dispatch whose pass type, blend state, vertex layout,
\* enabled extensions, accumulated texts and uniform declarations are those
\* an entry still in the pool was created from is a cache hit on that entry:
\* nothing is created, and if the entry has a pass, that pass, which the
\* creating dispatch ran, is run again; if it has none, nothing is run.
C3_SameSourceHits ==
    [][IsDispatch /\ aborted' = "" =>
         \A n \in 1..Len(sc.entries) :
            sc.entries[n].source = pending_source(sc, last'.type) =>
               /\ last'.hit
               /\ last'.entry = n
               /\ ~last'.created
               /\ DOMAIN passes' = DOMAIN passes
               /\ Len(sc'.entries) = Len(sc.entries)
               /\ last'.ran = (sc.entries[n].pass # 0)
               /\ last'.run_pass = sc.entries[n].pass
               /\ sc.entries[n].pass # 0 =>
                     ~passes[sc.entries[n].pass].first_run]_vars

\* A second dispatch of a shader with a uniform has hit the entry of the
\* first and run its pass, the pool holding another entry as well.
C3_Witness ==
    /\ last.hit
    /\ last.ran
    /\ ~last.created
    /\ Len(sc.entries) = 2
    /\ sc.entries[last.entry].pass = last.run_pass
    /\ Len(sc.entries[last.entry].source.decls) > 0

\* The parts of the params the key is made of.
KeyParts(p) ==
    <<p.type, p.frag_shader, p.vertex_shader, p.compute_shader,
      IF p.enable_blend
      THEN <<p.blend_src_rgb, p.blend_dst_rgb, p.blend_src_alpha,
             p.blend_dst_alpha>>
      ELSE <<>> >>

\* The params of the pending shader with the texts generated for type.
PendingParams(t, type) ==
    [sc.params EXCEPT !.type = type, !.frag_shader = t.frag,
                      !.vertex_shader = t.vert, !.compute_shader = t.comp]

\* Entry n has a pass made from the key parts of the params p.
Alike(n, p) ==
    /\ sc.entries[n].pass # 0
    /\ KeyParts(passes[sc.entries[n].pass].params) = KeyParts(p)

\* C4: a dispatch reuses an entry exactly if the key made of the pass type,
\* the generated fragment or compute text, the generated vertex text and the
\* blend state is byte-equal to the entry's stored key, and creates a new
\* entry with that key otherwise.
C4_ExactKey ==
    [][IsDispatch /\ aborted' = "" =>
         /\ last'.hit <=> \E n \in 1..Len(sc.entries) :
                             sc.entries[n].total = last'.key
         /\ last'.hit =>
               /\ sc.entries[last'.entry].total = last'.key
               /\ sc.entries[last'.entry].pass # 0 =>
                     Alike(last'.entry,
                           PendingParams(shader_text(sc, last'.type), last'.type))
               /\ Len(sc'.entries) = Len(sc.entries)
               /\ ~last'.created
         /\ (\E n \in 1..Len(sc.entries) :
                Alike(n, PendingParams(shader_text(sc, last'.type), last'.type)))
               => last'.hit
         /\ ~last'.hit =>
               /\ last'.created
               /\ last'.entry = Len(sc'.entries)
               /\ sc'.entries[last'.entry].total = last'.key]_vars

\* A dispatch has hit the older of two entries, whose pass is blended.
C4_Witness ==
    /\ last.hit
    /\ last.entry = 1
    /\ Len(sc.entries) = 2
    /\ last.ran
    /\ passes[last.run_pass].params.enable_blend

\* The uniforms of us a dispatch on entry e hands on, given the snapshots
\* snap: the changed ones if primitive(n) holds of every n.
Sent(us, snap, primitive(_)) ==
    {n \in 1..Len(us) : ~primitive(n) \/ snap[n] # us[n].v}

\* The snapshots update_uniform compares with: zeroes in a new entry.
Snapshots ==
    IF last'.created THEN [n \in 1..Len(sc.uniforms) |-> ZeroVal]
    ELSE sc.entries[last'.entry].cached_uniforms

\* The value list names the uniforms ns, in order, with their pending values.
ValuesAre(ns) ==
    /\ Len(last'.values) = Cardinality(ns)
    /\ {last'.values[k].index : k \in 1..Len(last'.values)} = ns
    /\ \A k \in 1..Len(last'.values) :
          /\ last'.values[k].data = sc.uniforms[last'.values[k].index].v
          /\ k > 1 => last'.values[k - 1].index < last'.values[k].index

\* A dispatch that got as far as an entry with a pass.
HasPass ==
    /\ IsDispatch
    /\ aborted' = ""
    /\ last'.entry # 0
    /\ sc'.entries[last'.entry].pass # 0

\* C5 (as stated): the value list of a dispatch whose pass exists holds
\* exactly the uniforms whose value differs from the entry's snapshot.
C5_OnlyChanged ==
    [][HasPass => ValuesAre(Sent(sc.uniforms, Snapshots, LAMBDA n : TRUE))]_vars

\* C5 (amended): the value list of a dispatch whose pass exists holds
\* exactly the int and float uniforms whose value differs from the entry's
\* snapshot, and every texture, image and buffer uniform, changed or not;
\* the snapshots of the listed uniforms take the new values.
C5_ChangedOrOpaque ==
    [][HasPass =>
         /\ ValuesAre(Sent(sc.uniforms, Snapshots,
                           LAMBDA n : sc.uniforms[n].input.type
                                         \in {"int", "float"}))
         /\ sc'.entries[last'.entry].cached_uniforms
               = [n \in 1..Len(sc.uniforms) |-> sc.uniforms[n].v]]_vars

\* A shader whose only uniform is the float exposure was dispatched with 1.0
\* and has been dispatched again with 2.0: a hit that hands on exposure.
C5_Witness ==
    /\ last.hit
    /\ last.ran
    /\ sc.entries[last.entry].source.decls
          = <<[name |-> "exposure", glsl_type |-> "float", type |-> "float",
               dim_v |-> 1, dim_m |-> 1, buffer_format |-> "", binding |-> 0]>>
    /\ last.values = <<[index |-> 1, data |-> [ZeroVal EXCEPT ![1] = 2]]>>

\* The pending shader is what gl_sc_reset leaves.
IsReset(s) ==
    /\ ~s.needs_reset
    /\ s.prelude_text = "" /\ s.header_text = "" /\ s.text = ""
    /\ s.uniforms = <<>>
    /\ s.params = ZeroParams
    /\ s.current_shader = 0

\* C6: every dispatch that returns has reset the pending shader, so the
\* needs_reset marker is false between public calls and the assert on it in
\* gl_sc_generate never fires.
C6_ResetAfterDispatch ==
    /\ aborted # "needs_reset"
    /\ aborted = "" => ~sc.needs_reset
    /\ (aborted = "" /\ last.op \in {"raster", "compute"}) => IsReset(sc)

\* A compute dispatch whose pass could not be created has returned, reset.
C6_Witness ==
    /\ aborted = ""
    /\ last.op = "compute"
    /\ last.created
    /\ ~last.create_ok
    /\ IsReset(sc)

\* C7: a dispatch without a vertex format set since the last reset stops at
\* the assert before a text is generated, an entry looked up or a pass
\* created; a dispatch that returns leaves the vertex format unset.
C7_VertexFormatAsserted ==
    [][IsDispatch =>
         /\ sc.params.vertex_attribs = 0 =>
               /\ aborted' = "vertex_attribs"
               /\ sc'.entries = sc.entries
               /\ passes' = passes
               /\ last'.key = ""
               /\ ~last'.hit /\ ~last'.created /\ ~last'.ran
               /\ sc'.params.frag_shader = ""
               /\ sc'.params.vertex_shader = ""
               /\ sc'.params.compute_shader = ""
         /\ aborted' = "" =>
               /\ sc.params.vertex_attribs # 0
               /\ sc'.params.vertex_attribs = 0]_vars

\* After an earlier dispatch, for which the vertex format was set, a compute
\* dispatch with a body but no vertex format has hit the assert.
C7_Witness ==
    /\ aborted = "vertex_attribs"
    /\ last.op = "compute"
    /\ sc.text # ""
    /\ Len(sc.entries) > 0

\* C8: a dispatch for which the backend creates no pass runs nothing, sets
\* error_state, resets and returns; error_state stays true over every later
\* call but gl_sc_reset_error.
C8_CreateFailure ==
    [][/\ (IsDispatch /\ last'.created /\ ~last'.create_ok) =>
             /\ aborted' = ""
             /\ ~last'.ran
             /\ last'.run_pass = 0
             /\ \A q \in DOMAIN passes' : passes'[q] = passes[q]
             /\ sc'.entries[last'.entry].pass = 0
             /\ sc'.error_state
             /\ IsReset(sc')
       /\ (sc.error_state /\ last'.op # "reset_error") => sc'.error_state]_vars

\* error_state is still set after a later dispatch that ran a pass.
C8_Witness ==
    /\ sc.error_state
    /\ last.hit
    /\ last.ran
    /\ \E n \in 1..Len(sc.entries) : sc.entries[n].pass = 0

\* A step that is a call of gl_poll_mapped_buffer.
IsPoll == last'.op = "poll_mapped_buffer"

\* C9: a poll of a buffer whose fence the GPU has not signaled returns false
\* and keeps the fence; a poll of a buffer whose fence is signaled deletes
\* the fence and returns true; a poll of a buffer without a fence returns
\* true without asking the driver or deleting anything; a buffer that never
\* was an upload source has no fence.
C9_FenceDiscipline ==
    [][IsPoll =>
         LET b == last'.buf
             f == bufs[b].fence
         IN  /\ (f # 0 /\ ~syncs[f]) =>
                   /\ ~last'.ret
                   /\ bufs'[b].fence = f
                   /\ syncs' = syncs
             /\ (f # 0 /\ syncs[f]) =>
                   /\ last'.ret
                   /\ bufs'[b].fence = 0
                   /\ last'.deleted = f
                   /\ DOMAIN syncs' = DOMAIN syncs \ {f}
             /\ f = 0 =>
                   /\ last'.ret
                   /\ last'.res = ""
                   /\ last'.deleted = 0
                   /\ syncs' = syncs
                   /\ bufs' = bufs
             /\ ~bufs[b].used => f = 0 /\ last'.ret
             /\ \A c \in DOMAIN bufs \ {b} : bufs'[c] = bufs[c]]_vars

\* A buffer that was an upload source and whose fence an earlier poll
\* resolved has been polled again: ready, without asking the driver.
C9_Witness ==
    /\ last.op = "poll_mapped_buffer"
    /\ last.ret
    /\ last.res = ""
    /\ last.deleted = 0
    /\ bufs[last.buf].used

\* Buffer b has just been polled ready.
PolledReady(b) ==
    last.op = "poll_mapped_buffer" /\ last.buf = b /\ last.ret

\* C10: with the GPU getting to every fence and the caller polling on (the
\* uploads being finitely many), a buffer with a fence is eventually polled
\* ready; and gl_poll_mapped_buffer can always complete, whatever the GPU
\* has done.
C10_PollEventuallyReady ==
    /\ \A b \in Buffers :
          (b \in DOMAIN bufs /\ bufs[b].fence # 0) ~> PolledReady(b)
    /\ [](\A b \in DOMAIN bufs : ENABLED gl_poll_mapped_buffer(b))

\* A poll has found the second fence of the run signaled and resolved it.
C10_Witness ==
    /\ last.op = "poll_mapped_buffer"
    /\ last.ret
    /\ last.res = "GL_ALREADY_SIGNALED"
    /\ last.deleted = 2

IsUpload == last'.op = "tex_upload"

\* The positions in the command list cs at which the command c is issued.
Issued(cs, c) == {n \in 1..Len(cs) : cs[n] = c}

\* The commands that copy pixels into the texture.
CopyCmds == {"TexImage1D", "gl_pbo_upload_tex", "TexImage3D"}

\* Every live sync object is the fence of exactly one buffer.
NoStraySync(sy, bf) ==
    \A f \in DOMAIN sy : Cardinality({c \in DOMAIN bf : bf[c].fence = f}) = 1

\* C11: an upload from a mapped buffer leaves that buffer with one new,
\* outstanding fence, created after the copy was issued; the fence it held
\* before is deleted, no other sync object appears or disappears, and every
\* live sync object stays the fence of exactly one buffer.  An upload from
\* plain memory creates, deletes and changes no fence.
C11_UploadFence ==
    [][IsUpload =>
        IF last'.buf # 0
        THEN /\ bufs'[last'.buf].fence \in DOMAIN syncs' \ DOMAIN syncs
             /\ ~syncs'[bufs'[last'.buf].fence]
             /\ bufs[last'.buf].fence \notin DOMAIN syncs'
             /\ DOMAIN syncs' = (DOMAIN syncs \ {bufs[last'.buf].fence})
                                    \cup {bufs'[last'.buf].fence}
             /\ \A c \in DOMAIN bufs \ {last'.buf} : bufs'[c] = bufs[c]
             /\ NoStraySync(syncs', bufs')
             /\ \A n \in Issued(last'.cmds, "FenceSync") \cup
                          Issued(last'.cmds, "DeleteSync") :
                    \E m \in 1..(n - 1) : last'.cmds[m] \in CopyCmds
             /\ Cardinality(Issued(last'.cmds, "FenceSync")) = 1
        ELSE /\ syncs' = syncs
             /\ bufs' = bufs
             /\ Issued(last'.cmds, "FenceSync") = {}
             /\ Issued(last'.cmds, "DeleteSync") = {}
    ]_vars

\* An upload from a buffer that still held the fence of an earlier upload,
\* while another buffer holds a fence too.
C11_Witness ==
    /\ last.op = "tex_upload"
    /\ last.buf # 0
    /\ last.deleted # 0
    /\ \E c \in DOMAIN bufs \ {last.buf} : bufs[c].fence # 0

\* C12: every texture with the render-destination capability references a
\* format with the renderable capability, be it created or wrapped.
C12_RenderDstRenderable ==
    \A t \in DOMAIN texs :
        texs[t].params.render_dst => texs[t].params.format.renderable

IsTexCreate == last'.op = "tex_create"

\* The positions in the GL calls cs at which cmd is called on the object obj.
Called(cs, cmd, obj) ==
    {n \in 1..Len(cs) : cs[n].cmd = cmd /\ cs[n].obj = obj}

\* Every object the GL calls cs generate is deleted by them, once, later.
AllReleased(cs) ==
    \A n \in 1..Len(cs) :
        /\ cs[n].cmd = "GenTextures" =>
              /\ Cardinality(Called(cs, "DeleteTextures", cs[n].obj)) = 1
              /\ \A m \in Called(cs, "DeleteTextures", cs[n].obj) : m > n
        /\ cs[n].cmd = "GenFramebuffers" =>
              /\ Cardinality(Called(cs, "DeleteFramebuffers", cs[n].obj)) = 1
              /\ \A m \in Called(cs, "DeleteFramebuffers", cs[n].obj) : m > n

\* A render target was asked for and the format is not renderable or the
\* framebuffer is not complete.
Refused(a) ==
    a.params.render_dst /\ (~a.params.format.renderable \/ ~a.complete)

\* C13: texture creation returns none exactly when a render target is asked
\* for and the format is not renderable or the framebuffer completeness check
\* fails; then every GL object it generated is deleted again and no texture
\* stays behind.  Otherwise it returns a new texture whose GL texture (and
\* framebuffer, for a render target) is live.
C13_CreateFailure ==
    [][IsTexCreate =>
        /\ (last'.res = "NULL") <=> Refused(last'.args)
        /\ Refused(last'.args) =>
              /\ AllReleased(last'.cmds)
              /\ Called(last'.cmds, "GenTextures", gen_name(gl.textures)) # {}
              /\ gl'.textures = gl.textures
              /\ gl'.fbos = gl.fbos
              /\ texs' = texs
        /\ ~Refused(last'.args) =>
              /\ last'.entry \in DOMAIN texs' \ DOMAIN texs
              /\ texs'[last'.entry].priv.texture
                    \in gl'.textures \ gl.textures
              /\ last'.args.params.render_dst =>
                    texs'[last'.entry].priv.fbo \in gl'.fbos \ gl.fbos
    ]_vars

\* A creation that failed the completeness check after the framebuffer was
\* generated.
C13_Witness ==
    /\ last.op = "tex_create"
    /\ last.res = "NULL"
    /\ \E n \in 1..Len(last.cmds) : last.cmds[n].cmd = "GenFramebuffers"

IsTexDestroy == last'.op = "tex_destroy"

\* C14: destroying a wrapped texture or framebuffer makes no GL call and
\* leaves every GL object live; destroying an owned texture deletes its GL
\* texture once and its framebuffer, if it has one, once, and nothing else.
\* The objects of the windowing layer stay live throughout.
C14_DestroyOwnedOnly ==
    [][/\ ForeignTextures \subseteq gl'.textures
       /\ ForeignFbos \subseteq gl'.fbos
       /\ IsTexDestroy =>
            IF last'.args.priv.own_objects
            THEN /\ Cardinality(Called(last'.cmds, "DeleteTextures",
                                       last'.args.priv.texture)) = 1
                 /\ Cardinality(Called(last'.cmds, "DeleteFramebuffers",
                                       last'.args.priv.fbo))
                      = IF last'.args.priv.fbo # 0 THEN 1 ELSE 0
                 /\ Len(last'.cmds)
                      = IF last'.args.priv.fbo # 0 THEN 2 ELSE 1
                 /\ last'.args.priv.texture \in gl.textures
                 /\ gl'.textures = gl.textures \ {last'.args.priv.texture}
                 /\ gl'.fbos = gl.fbos \ {last'.args.priv.fbo}
            ELSE /\ last'.cmds = << >>
                 /\ gl' = gl
    ]_vars

\* A wrapped framebuffer of the windowing layer was destroyed.
C14_Witness ==
    /\ last.op = "tex_destroy"
    /\ ~last.args.priv.own_objects
    /\ last.args.priv.fbo \in ForeignFbos

IsPassCreate == last'.op = "renderpass_create"

\* The creation tried the cached binary.
Tried(a) == a.ext.ProgramBinary /\ a.params.cached_program > 4

\* The creation compiled from source.
Compiled(cs) ==
    calls_of(cs, "CompileShader") # {} \/ calls_of(cs, "LinkProgram") # {}

\* Every stage of the pass type compiled and the link succeeded.
SourceOk(a) ==
    /\ \A n \in 1..Len(stages_of(a.params.type)) :
          a.ans.compiled[stages_of(a.params.type)[n]]
    /\ a.ans.linked

\* C15: creation tries the cached binary, and tries it first, exactly when
\* one of more than 4 bytes is given and the context can load binaries.  A
\* binary that fails the link status check is deleted and the program is
\* compiled from source, with the outcome the compilation has; compilation is
\* skipped exactly when the binary loaded, and then the pass is created.
C15_BinaryFirst ==
    [][IsPassCreate =>
        /\ Tried(last'.args) <=> calls_of(last'.cmds, "ProgramBinary") # {}
        /\ Tried(last'.args) =>
              /\ last'.cmds[1].cmd = "CreateProgram"
              /\ last'.cmds[2].cmd = "ProgramBinary"
              /\ last'.cmds[2].obj = last'.cmds[1].obj
        /\ Tried(last'.args) /\ ~last'.args.ans.binary =>
              /\ last'.cmds[3] = Cmd("DeleteProgram", 0, last'.cmds[1].obj, "")
              /\ Compiled(last'.cmds)
              /\ (last'.entry # 0) <=> SourceOk(last'.args)
        /\ ~Compiled(last'.cmds)
              <=> (Tried(last'.args) /\ last'.args.ans.binary)
        /\ ~Compiled(last'.cmds) =>
              /\ last'.entry \in DOMAIN passes' \ DOMAIN passes
              /\ pass_gl'[last'.entry].program = last'.cmds[1].obj
              /\ pass_gl'[last'.entry].program \in gl'.programs
    ]_vars

\* A stale binary was tried and deleted, and the pass was created from
\* source.
C15_Witness ==
    /\ last.op = "renderpass_create"
    /\ Tried(last.args)
    /\ ~last.args.ans.binary
    /\ last.entry # 0

\* C16: when a program is compiled from source, every stage of the pass type
\* (compute alone, or vertex and fragment) is compiled and attached, then
\* the program is linked, once.  A pass is created exactly when every stage
\* compiled and the link succeeded; otherwise the program is deleted, no GL
\* program stays behind and no pass exists more than before.
C16_CompileOrNothing ==
    [][IsPassCreate /\ Compiled(last'.cmds) =>
        /\ Cardinality(calls_of(last'.cmds, "LinkProgram")) = 1
        /\ \A n \in 1..Len(stages_of(last'.args.params.type)) :
              \E c \in calls_of(last'.cmds, "CompileShader"),
                 t \in calls_of(last'.cmds, "AttachShader") :
                  /\ last'.cmds[c].arg = stages_of(last'.args.params.type)[n]
                  /\ last'.cmds[t].arg = last'.cmds[c].arg
                  /\ c < t
                  /\ \A l \in calls_of(last'.cmds, "LinkProgram") : t < l
        /\ Cardinality(calls_of(last'.cmds, "CompileShader"))
              = Len(stages_of(last'.args.params.type))
        /\ (last'.entry # 0) <=> SourceOk(last'.args)
        /\ last'.entry = 0 =>
              /\ gl'.programs = gl.programs
              /\ passes' = passes
              /\ pass_gl' = pass_gl
              /\ \A l \in calls_of(last'.cmds, "LinkProgram") :
                    \E d \in calls_of(last'.cmds, "DeleteProgram") :
                        d > l /\ last'.cmds[d].obj = last'.cmds[l].obj
        /\ last'.entry # 0 =>
              /\ last'.entry \in DOMAIN passes' \ DOMAIN passes
              /\ pass_gl'[last'.entry].program \in gl'.programs \ gl.programs
    ]_vars

\* A raster pass whose vertex shader compiled and whose fragment shader did
\* not, while the driver reported the link as successful.
C16_Witness ==
    /\ last.op = "renderpass_create"
    /\ Compiled(last.cmds)
    /\ last.args.params.type = "RASTER"
    /\ last.args.ans.compiled["GL_VERTEX_SHADER"]
    /\ ~last.args.ans.compiled["GL_FRAGMENT_SHADER"]
    /\ last.args.ans.linked
    /\ last.entry = 0

\* A run of a render pass that returned.
IsRun == last'.op = "renderpass_run" /\ aborted' = ""

\* The input the n-th value of the run a is for.
InputOf(a, n) == a.inputs[a.values[n].index]

\* What the run a bound for its n-th value is bound in the context g.
BoundIn(g, a, n) ==
    CASE InputOf(a, n).type = "TEX" ->
            \E b \in g.tex_units :
                /\ b[1] = InputOf(a, n).binding
                /\ b[2] = a.values[n].data.priv.target
      [] InputOf(a, n).type = "IMG_W" ->
            \E b \in g.image_units : b[1] = InputOf(a, n).binding
      [] InputOf(a, n).type = "SSBO" ->
            \E b \in g.ssbo : b[1] = InputOf(a, n).binding
      [] OTHER -> FALSE

\* The position of the draw or the dispatch in the GL calls cs.
Work(cs) ==
    calls_of(cs, "gl_vao_draw_data") \cup calls_of(cs, "DispatchCompute")

\* C17: when a run returns, nothing is bound at any texture unit and target,
\* image unit or storage buffer slot the run bound for a value, no program
\* is current, and after a raster run framebuffer 0 is bound and the scissor
\* test and blending are disabled.  (At the draw or dispatch the bindings of
\* every texture, image and buffer value were in place.)
C17_RunRestores ==
    [][IsRun =>
        /\ \A n \in 1..Len(last'.args.values) :
              ~BoundIn(gl', last'.args, n)
        /\ \A n \in 1..Len(last'.args.values), w \in Work(last'.cmds) :
              InputOf(last'.args, n).type \in {"TEX", "IMG_W", "SSBO"} =>
                  BoundIn(gl_calls(gl, last'.cmds, w), last'.args, n)
        /\ gl'.program = 0
        /\ gl'.active = 0
        /\ last'.args.type = "RASTER" =>
              /\ gl'.framebuffer = 0
              /\ ~gl'.scissor
              /\ ~gl'.blend
    ]_vars

\* A compute run with a texture, an image and a storage buffer value.
C17_Witness ==
    /\ last.op = "renderpass_run"
    /\ last.args.type = "COMPUTE"
    /\ {last.args.inputs[last.args.values[n].index].type :
           n \in 1..Len(last.args.values)} = {"TEX", "IMG_W", "SSBO"}

\* The GL calls that unbind an input.
Unbinds(cs) ==
    {n \in 1..Len(cs) :
        /\ cs[n].cmd \in {"BindTexture", "BindImageTexture", "BindBufferBase"}
        /\ cs[n].obj = 0}

\* In a compute run the dispatch is directly followed by a memory barrier
\* with the bits given, which comes before every unbinding; a raster run
\* issues no barrier.
BarrierAfterDispatch(bits) ==
    IF last'.args.type = "COMPUTE"
    THEN /\ Cardinality(calls_of(last'.cmds, "DispatchCompute")) = 1
         /\ \A d \in calls_of(last'.cmds, "DispatchCompute") :
               /\ d < Len(last'.cmds)
               /\ last'.cmds[d + 1].cmd = "MemoryBarrier"
               /\ last'.cmds[d + 1].arg = bits
               /\ \A u \in Unbinds(last'.cmds) : u < d \/ u > d + 1
               /\ \A u \in calls_of(last'.cmds, "UseProgram") :
                     last'.cmds[u].obj = 0 => u > d + 1
         /\ calls_of(last'.cmds, "MemoryBarrier")
               = {d + 1 : d \in calls_of(last'.cmds, "DispatchCompute")}
    ELSE calls_of(last'.cmds, "MemoryBarrier") = {}

UnitSteps(cs) ==
    {n \in 1..Len(cs) :
        cs[n].cmd = "Uniform1i" /\ cs[n].arg \in {"TEX", "IMG_W"}}

\* C19: a new pass has the first-run marker set; a run tells the program the
\* unit of its texture and image values exactly when the marker is set, and
\* clears it whatever values it had; nothing sets the marker of an existing
\* pass again, so no later run performs the step.
C19_UnitStepOnce ==
    [][/\ IsPassCreate /\ last'.entry # 0 => passes'[last'.entry].first_run
       /\ \A id \in DOMAIN passes \cap DOMAIN passes' :
             passes'[id].first_run => passes[id].first_run
       /\ IsRun =>
             /\ ~passes'[last'.args.pass].first_run
             /\ last'.args.first_run = passes[last'.args.pass].first_run
             /\ UnitSteps(last'.cmds) # {} => passes[last'.args.pass].first_run
             /\ passes[last'.args.pass].first_run =>
                   \A n \in 1..Len(last'.args.values) :
                       InputOf(last'.args, n).type \in {"TEX", "IMG_W"} =>
                           \E u \in UnitSteps(last'.cmds) :
                               /\ last'.cmds[u].obj
                                     = InputOf(last'.args, n).binding
                               /\ last'.cmds[u].arg
                                     = InputOf(last'.args, n).type
    ]_vars

\* A later run of a pass whose first run had no values: it binds a texture
\* without telling the program its unit.
C19_Witness ==
    /\ last.op = "renderpass_run"
    /\ ~last.args.first_run
    /\ \E n \in 1..Len(last.args.values) :
          last.args.inputs[last.args.values[n].index].type = "TEX"
    /\ UnitSteps(last.cmds) = {}

IsFind == last'.op = "find_format"

\* The format f is what the finder called with a asks for: of the colour
\* type, with n components, a pixel of b bytes per component (4 for float16),
\* a first component of 8 * b bits depth (16 for float16), the same size and
\* depth in all components, no padding, and linear filtering unless the
\* finder is the one for uint.
Wanted(f, a) ==
    /\ f.ctype = CASE a.fn = "unorm" -> "UNORM"
                   [] a.fn = "uint" -> "UINT"
                   [] a.fn = "float16" -> "FLOAT"
    /\ f.num_components = a.n
    /\ Len(f.component_size) = a.n
    /\ Len(f.component_depth) = a.n
    /\ f.pixel_size = (IF a.fn = "float16" THEN 4 ELSE a.b) * a.n
    /\ f.component_depth[1] = IF a.fn = "float16" THEN 16 ELSE 8 * a.b
    /\ \A i \in 1..a.n :
          /\ f.component_size[i] = f.component_size[1]
          /\ f.component_depth[i] = f.component_depth[1]
    /\ f.component_size[1] * a.n = 8 * f.pixel_size
    /\ a.fn # "uint" => f.linear_filter

\* C20: each finder returns the earliest registered format that is what it
\* asks for, and none exactly when no registered format is.  With R8 and
\* RGBA8 registered, unorm(1, 4) is the second entry and unorm(2, 4) is none.
C20_FindersFirstMatch ==
    [][IsFind =>
        /\ IF \E i \in 1..Len(formats) : Wanted(formats[i], last'.args)
           THEN /\ last'.entry \in 1..Len(formats)
                /\ Wanted(formats[last'.entry], last'.args)
                /\ \A i \in 1..(last'.entry - 1) :
                      ~Wanted(formats[i], last'.args)
           ELSE last'.entry = 0
        /\ /\ Len(formats) = 2
           /\ formats[1].name = "r8"
           /\ formats[2].name = "rgba8"
           /\ last'.args.fn = "unorm"
           /\ last'.args.n = 4
           => last'.entry = IF last'.args.b = 1 THEN 2 ELSE 0
    ]_vars

\* The filterable RGBA8 was found behind an RGBA8 without linear filtering.
C20_Witness ==
    /\ last.op = "find_format"
    /\ last.args = [fn |-> "unorm", b |-> 1, n |-> 4]
    /\ last.entry = 2
    /\ formats[1].name = "rgba8_nearest"

\* The most recent call was ra_get_imgfmt_desc.
IsGetDesc == last.op = "ra_get_imgfmt_desc"

\* The pixel format asked for is regular, and its description.
AskedRegular == last.args.imgfmt \in DOMAIN RegularImgfmts
AskedRegfmt == RegularImgfmts[last.args.imgfmt]

\* What find_unorm and find_uint return for plane n of the pixel format
\* asked for.
PlaneUnorm(n) ==
    ra_find_unorm_format(formats, AskedRegfmt.component_size,
                         AskedRegfmt.planes[n].num_components)
PlaneUint(n) ==
    ra_find_uint_format(formats, AskedRegfmt.component_size,
                        AskedRegfmt.planes[n].num_components)

\* C21: when ra_get_imgfmt_desc succeeds for a regular pixel format, every
\* plane of the descriptor has the format find_unorm returns for the pixel
\* format's component byte size and the plane's component count, and the
\* format find_uint returns only if find_unorm returns none; the plane
\* count, each plane's components, the chroma subsampling, the component
\* bits and the padding are those of the pixel format.
C21_PlaneFormats ==
    IsGetDesc /\ AskedRegular /\ last.ret =>
        /\ last.values[1].num_planes = AskedRegfmt.num_planes
        /\ \A n \in 1..4 :
              IF n <= AskedRegfmt.num_planes
              THEN /\ last.values[1].planes[n] # 0
                   /\ last.values[1].planes[n] =
                          IF PlaneUnorm(n) # 0 THEN PlaneUnorm(n)
                          ELSE PlaneUint(n)
                   /\ last.values[1].components[n] =
                          AskedRegfmt.planes[n].components
              ELSE /\ last.values[1].planes[n] = 0
                   /\ last.values[1].components[n] = <<0, 0, 0, 0>>
        /\ last.values[1].chroma_w = AskedRegfmt.chroma_w
        /\ last.values[1].chroma_h = AskedRegfmt.chroma_h
        /\ last.values[1].component_bits = AskedRegfmt.component_size * 8
        /\ last.values[1].component_pad = AskedRegfmt.component_pad

\* A two-plane pixel format was resolved to integer formats, find_unorm
\* finding none for its planes although normalized 16 bit formats are
\* registered (with a depth below 16).
C21_Witness ==
    /\ IsGetDesc
    /\ last.args.imgfmt = "IMGFMT_P010"
    /\ last.ret
    /\ \A n \in 1..2 :
          /\ PlaneUnorm(n) = 0
          /\ formats[last.values[1].planes[n]].ctype = "UINT"
    /\ \E n \in 1..Len(formats) : formats[n].name = "r16"

\* The format a plane of the pixel format asked for resolves to, 0 if none.
PlaneChosen(n) == IF PlaneUnorm(n) # 0 THEN PlaneUnorm(n) ELSE PlaneUint(n)

\* The planes of the pixel format asked for that resolve to a format.
PlanesChosen == {n \in 1..AskedRegfmt.num_planes : PlaneChosen(n) # 0}

\* The four reasons to fail: a plane with neither format, component bits
\* beyond the depth of a plane's format with negative padding, planes of
\* different colour types, neither regular nor special-cased.
PlaneMissing == \E n \in 1..AskedRegfmt.num_planes : PlaneChosen(n) = 0

WouldTruncate ==
    /\ AskedRegfmt.component_pad < 0
    /\ \E n \in PlanesChosen :
          AskedRegfmt.component_size * 8 >
              formats[PlaneChosen(n)].component_depth[1]

TypesDiffer ==
    \E n, m \in PlanesChosen :
        formats[PlaneChosen(n)].ctype # formats[PlaneChosen(m)].ctype

NotSpecial ==
    \A n \in 1..Len(formats) : formats[n].special_imgfmt # last.args.imgfmt

\* C22: ra_get_imgfmt_desc returns false exactly when one of the four
\* reasons holds for the pixel format and the registry, and then *out is
\* what it was before the call.
C22_FailureCases ==
    IsGetDesc =>
        /\ last.ret =
              ~ IF AskedRegular
                THEN PlaneMissing \/ WouldTruncate \/ TypesDiffer
                ELSE NotSpecial
        /\ ~last.ret => last.values[1] = last.args.out

\* A call failed because the planes of NV12 resolve to a normalized and an
\* integer format, and the earlier result in *out is still there.
C22_Witness ==
    /\ IsGetDesc
    /\ last.args.imgfmt = "IMGFMT_NV12"
    /\ ~last.ret
    /\ ~PlaneMissing
    /\ TypesDiffer
    /\ last.args.out # ZeroDesc
    /\ last.values[1] = last.args.out

\* The registered formats that declare the pixel format asked for as their
\* special image format.
Special == {n \in 1..Len(formats) : formats[n].special_imgfmt = last.args.imgfmt}

\* C29: when a registered format declares the pixel format asked for as its
\* special image format, ra_get_imgfmt_desc succeeds and *out is the
\* descriptor that format declares: one plane, which is that format, with
\* the components the backend fixed, no plane being looked up by the
\* finders.
C29_SpecialDescriptor ==
    IsGetDesc /\ ~AskedRegular /\ Special # {} =>
        /\ last.ret
        /\ last.values[1] = formats[Min(Special)].special_imgfmt_desc[1]
        /\ last.values[1].num_planes = 1
        /\ last.values[1].planes = <<Min(Special), 0, 0, 0>>
        /\ last.values[1].components[1] =
              IF last.args.imgfmt = "IMGFMT_RGB565" THEN <<1, 2, 3, 0>>
              ELSE <<3, 1, 2, 0>>
        /\ last.values[1].component_bits = 0
        /\ last.values[1].component_pad = 0

\* RGB565 was resolved to the rgb565 format, which no finder returns for
\* any request, over an earlier result in *out.
C29_Witness ==
    /\ IsGetDesc
    /\ last.args.imgfmt = "IMGFMT_RGB565"
    /\ last.ret
    /\ formats[last.values[1].planes[1]].name = "rgb565"
    /\ ~ra_format_is_regular(formats[last.values[1].planes[1]])
    /\ last.args.out # ZeroDesc
    /\ last.values[1] # last.args.out

\* A step that is a dispatch of a cache with a cache directory in which
\* create_pass was called.
IsCachedCreate ==
    /\ last'.op \in {"raster", "compute"}
    /\ last'.created
    /\ sc.cache_dir # ""

\* The blob create_pass loads from disk in this step: what follows the
\* header line in the shader's file, nothing if there is no such file, it
\* cannot be read or it starts with something else.
BlobOnDisk ==
    IF /\ last'.key \in DOMAIN disk.files
       /\ last'.args.io.read
       /\ disk.files[last'.key].head = "mpv shader cache v1\n"
    THEN disk.files[last'.key].rest
    ELSE << >>

\* The binary the backend returned with the pass of this step: the format
\* and the data of glGetProgramBinary if the program was compiled and the
\* context has the function, nothing otherwise.
BinaryReturned ==
    IF /\ last'.create_ok
       /\ calls_of(last'.cmds, "LinkProgram") # {}
       /\ last'.args.ext.GetProgramBinary
       /\ last'.args.ans.data # << >>
    THEN <<last'.args.ans.binary_format, 0, 0, 0>> \o last'.args.ans.data
    ELSE << >>

\* The pass of this step was created from the binary on disk.
LoadedFromDisk ==
    /\ last'.create_ok
    /\ calls_of(last'.cmds, "ProgramBinary") # {}
    /\ calls_of(last'.cmds, "LinkProgram") = {}

\* The step leaves the shader's file holding the header line followed by
\* the binary returned, and every other file as it was.
FileWritten ==
    /\ last'.args.opened
    /\ last'.key \in DOMAIN disk'.files
    /\ disk'.files[last'.key] =
           [head |-> "mpv shader cache v1\n", rest |-> BinaryReturned]
    /\ \A k \in DOMAIN disk.files \ {last'.key} :
          k \in DOMAIN disk'.files /\ disk'.files[k] = disk.files[k]
    /\ DOMAIN disk'.files \subseteq DOMAIN disk.files \cup {last'.key}

\* The step opens no file for writing and leaves every file as it was.
NoFileWritten == ~last'.args.opened /\ disk'.files = disk.files

\* The pass was created and the backend returned a non-empty binary that
\* differs from the blob loaded from disk.
NewBinary ==
    /\ last'.create_ok
    /\ BinaryReturned # << >>
    /\ BinaryReturned # BlobOnDisk

\* The directory exists or can be made, and the file can be opened.
CanOpen == (disk.dir \/ last'.args.io.mkdirp) /\ last'.args.io.fopen

\* C23 as stated: with a cache directory, create_pass writes the shader's
\* file (the header line followed by the binary) exactly when the pass was
\* created and the backend returned a non-empty binary that differs from
\* the blob loaded from disk.
C23_WrittenWhenNewBinary ==
    [][IsCachedCreate =>
          IF NewBinary THEN FileWritten ELSE NoFileWritten]_vars

\* C23, amended: with a cache directory, create_pass writes the shader's
\* file (the header line followed by the binary) exactly when the pass was
\* created, the backend returned a non-empty binary that differs from the
\* blob loaded from disk, and the file can be opened for writing; a pass
\* created from the binary on disk and a failed creation write nothing.
C23_WrittenWhenNewBinaryAndOpen ==
    [][IsCachedCreate =>
          /\ last'.args.nc = BinaryReturned
          /\ last'.args.loaded = BlobOnDisk
          /\ IF NewBinary /\ CanOpen THEN FileWritten ELSE NoFileWritten
          /\ LoadedFromDisk => NoFileWritten
          /\ ~last'.create_ok => NoFileWritten]_vars

\* After a restart the binary on disk was rejected, the shader compiled and
\* the driver returned another binary, which replaced the one in the file.
C23_Witness ==
    /\ last.op = "raster"
    /\ last.created
    /\ last.create_ok
    /\ sc.cache_dir # ""
    /\ last.args.loaded = <<1, 0, 0, 0, 7>>
    /\ last.args.nc = <<1, 0, 0, 0, 8>>
    /\ last.key \in DOMAIN disk.files
    /\ disk.files[last.key] =
           [head |-> "mpv shader cache v1\n", rest |-> <<1, 0, 0, 0, 8>>]

\* The driver compiles every stage of the shader of this step and links it.
SourceCompiles ==
    /\ \A st \in (IF last'.type = "compute" THEN {"GL_COMPUTE_SHADER"}
                  ELSE {"GL_VERTEX_SHADER", "GL_FRAGMENT_SHADER"}) :
          last'.args.ans.compiled[st]
    /\ last'.args.ans.linked

\* C24: whatever the disk cache does in a dispatch that creates a pass, the
\* dispatch does not abort, the error state is set only by a failed
\* creation, and the pass runs if it was created; when no binary is loaded
\* from disk (no file, an unreadable file, another header line) or the
\* driver rejects it, the program is compiled from source and the pass is
\* created exactly when the source compiles, whether or not the directory
\* can be made and the file opened.
C24_DiskProblemsHarmless ==
    [][IsCachedCreate =>
          /\ aborted' = ""
          /\ sc'.error_state = (sc.error_state \/ ~last'.create_ok)
          /\ last'.ran = last'.create_ok
          /\ BlobOnDisk = << >> \/ ~last'.args.ans.binary =>
                /\ Compiled(last'.cmds)
                /\ last'.create_ok = SourceCompiles]_vars

\* The shader's file starts with another header line, the driver returned
\* a binary for the compiled program, the file could not be opened, and
\* the pass ran with the error state clear.
C24_Witness ==
    /\ last.op = "raster"
    /\ last.created
    /\ sc.cache_dir # ""
    /\ last.key \in DOMAIN disk.files
    /\ disk.files[last.key].head # "mpv shader cache v1\n"
    /\ last.args.loaded = << >>
    /\ last.args.nc # << >>
    /\ ~last.args.io.fopen
    /\ ~last.args.opened
    /\ last.ran
    /\ ~sc.error_state

\* The declared shape of the input in is none update_uniform can transmit:
\* a float that is not a vector of 1 to 4 components, a 2x2 or a 3x3
\* matrix, or an int that is not a single scalar.
BadShape(in) ==
    \/ /\ in.type = "FLOAT"
       /\ ~(in.dim_m = 1 /\ in.dim_v \in 1..4)
       /\ ~(in.dim_m = 2 /\ in.dim_v = 2)
       /\ ~(in.dim_m = 3 /\ in.dim_v = 3)
    \/ /\ in.type = "INT"
       /\ ~(in.dim_m = 1 /\ in.dim_v = 1)

\* C25: a run that supplies a value for an input of a shape that cannot be
\* transmitted ends in an assert or abort, whatever the input.
C25_BadShapeAborts ==
    [][/\ last'.op = "renderpass_run"
       /\ \E n \in 1..Len(last'.args.values) :
             BadShape(InputOf(last'.args, n))
       => aborted' # ""]_vars

(***************************************************************************)
(* The input schema of a render pass.                                      *)
(***************************************************************************)
\* The input schema of the live pass id: its inputs, in order, each with its
\* name, type, dimensions and binding.
Schema(id) == passes[id].params.inputs

\* The destroyed passes that were created from the P the live pass id was
\* created from.
Earlier(id) == {r \in held.freed : r.P = held.made[id]}

IsBufDestroy == last'.op = "destroy_mapped_buffer"

\* The GL commands that wait for or test a sync object.
WaitCmds == {"ClientWaitSync", "WaitSync", "GetSynciv", "Finish"}

\* C28: gl_destroy_mapped_buffer of a live buffer neither waits for nor
\* polls the fence (no wait command is issued, no result is looked at): it
\* deletes the fence, if there is one, whether it is signaled or not, unmaps
\* the memory and deletes the native buffer in the same call, and leaves
\* every other buffer and sync object alone.  The GPU can still be reading
\* the buffer then only if the buffer has a fence, that is, if no poll said
\* ready since the last upload from it.
C28_DestroyNoWait ==
    [][IsBufDestroy =>
        LET b == last'.buf
            f == bufs[b].fence
        IN  /\ b \in DOMAIN bufs
            /\ b \notin DOMAIN bufs'
            /\ \A i \in DOMAIN bufs \ {b} :
                   i \in DOMAIN bufs' /\ bufs'[i] = bufs[i]
            /\ last'.deleted = f
            /\ f \notin DOMAIN syncs'
            /\ \A i \in DOMAIN syncs \ {f} :
                   i \in DOMAIN syncs' /\ syncs'[i] = syncs[i]
            /\ DOMAIN syncs' \subseteq DOMAIN syncs
            /\ last'.res = ""
            /\ \A c \in WaitCmds : Issued(last'.cmds, c) = {}
            /\ last'.cmds = <<"DeleteSync",
                             "BindBuffer(PIXEL_UNPACK_BUFFER, pbo)",
                             "UnmapBuffer(PIXEL_UNPACK_BUFFER)",
                             "BindBuffer(PIXEL_UNPACK_BUFFER, 0)",
                             "DeleteBuffers">>
            /\ last'.args.pending = (f # 0 /\ ~syncs[f])
            /\ (f = 0 => ~last'.args.pending)
            /\ aborted' = ""]_vars

\* A buffer that was the source of an upload was destroyed while its fence
\* was not signaled: the memory is unmapped while the GPU may still read it.
C28_Witness ==
    /\ last.op = "destroy_mapped_buffer"
    /\ last.deleted # 0
    /\ last.args.pending
    /\ last.args.used
    /\ last.buf \notin DOMAIN bufs
    /\ last.deleted \notin DOMAIN syncs

(***************************************************************************)
(* The assembly state between shaders.                                     *)
(***************************************************************************)
\* The pending shader of the cache s is empty.
AssemblyEmpty(s) ==
    /\ Len(s.prelude_text) = 0 /\ Len(s.header_text) = 0 /\ Len(s.text) = 0
    /\ Len(s.uniforms) = 0
    /\ s.next_texture_unit = 1
    /\ s.next_image_unit = 1
    /\ s.next_buffer_binding = 1
    /\ s.current_shader = 0
    /\ s.params.vertex_attribs = 0 /\ s.params.num_vertex_attribs = 0
    /\ s.params.vertex_stride = 0
    /\ ~s.params.enable_blend
    /\ s.params.blend_src_rgb = 0 /\ s.params.blend_dst_rgb = 0
    /\ s.params.blend_src_alpha = 0 /\ s.params.blend_dst_alpha = 0

\* The units and bindings handed out to the pending uniforms of the cache s.
HandedOut(s) ==
    {s.uniforms[n].input.binding :
        n \in {k \in 1..Len(s.uniforms) :
                 s.uniforms[k].input.type \in {"tex", "img_w", "buf_rw"}}}

\* C27: after gl_sc_create and after every dispatch that returns, the
\* pending shader is empty: the three texts have length 0, no uniform is
\* pending, the next texture unit, image unit and buffer binding are 1, no
\* current shader is set, and the vertex layout and the blend state are
\* cleared; and no texture, image or buffer is ever given unit or binding 0.
C27_AssemblyEmpty ==
    /\ (aborted = "" /\ last.op \in {"init", "raster", "compute"})
           => AssemblyEmpty(sc)
    /\ 0 \notin HandedOut(sc)

\* A raster dispatch with texts, a texture, an image, a buffer, a vertex
\* layout and blending has run its pass and returned, and nothing is left
\* of them.
C27_Witness ==
    /\ aborted = ""
    /\ last.op = "raster"
    /\ last.ran
    /\ \E n \in 1..Len(sc.entries) :
           /\ sc.entries[n].pass = last.run_pass
           /\ sc.entries[n].source.blend[1]
           /\ Len(sc.entries[n].source.decls) = 3
           /\ sc.entries[n].source.header_text # ""
           /\ sc.entries[n].source.prelude_text # ""
    /\ AssemblyEmpty(sc)

(***************************************************************************)
(* The error state and the shaders without a pass.                         *)
(***************************************************************************)
\* This step is a dispatch that returned without running a pass.
SkippedDispatch == IsDispatch /\ aborted' = "" /\ ~last'.ran

\* C30: whenever a dispatch returns without having run a pass, because the
\* entry of its shader has no pass, the error state of the cache is true
\* when it returns, whatever dispatches and gl_sc_reset_error calls came
\* before.
C30_SkippedMeansError == [][SkippedDispatch => sc'.error_state]_vars

(***************************************************************************)
(* The entries without a pass.                                             *)
(***************************************************************************)
\* The entries of the pool es that have no pass and whose key is total.
FailedWith(es, total) ==
    {n \in 1..Len(es) : es[n].pass = 0 /\ es[n].total = total}

\* C31: a dispatch of a shader whose entry is in the pool without a pass
\* finds that entry, creates no pass and runs none, and leaves the pool as
\* it is; an entry without a pass stays in the pool, without a pass, until a
\* flush; and the flush happens at SC_MAX_ENTRIES entries whether they have
\* a pass or not.
C31_FailedEntryKept ==
    [][/\ (IsDispatch /\ aborted' = "" /\ FailedWith(sc.entries, last'.key) # {})
            => /\ last'.hit
               /\ last'.entry \in FailedWith(sc.entries, last'.key)
               /\ ~last'.created
               /\ ~last'.ran
               /\ ~last'.flushed
               /\ DOMAIN passes' = DOMAIN passes
               /\ sc'.entries = sc.entries
       /\ \A n \in 1..Len(sc.entries) :
              sc.entries[n].pass = 0 =>
                 \/ last'.flushed
                 \/ /\ n \in 1..Len(sc'.entries)
                    /\ sc'.entries[n] = sc.entries[n]
       /\ (IsDispatch /\ aborted' = "") =>
              (last'.flushed <=>
                  ~last'.hit /\ Len(sc.entries) = SC_MAX_ENTRIES)]_vars

\* A dispatch has found the entry of a shader that failed before and made
\* no pass, in a full pool, after the error state was reset.
C31_Witness ==
    /\ aborted = ""
    /\ last.op = "raster"
    /\ last.hit
    /\ ~last.created
    /\ sc.entries[last.entry].pass = 0
    /\ ~sc.error_state
    /\ Len(sc.entries) = SC_MAX_ENTRIES

\* A shader that failed was compiled again after the flush that removed its
\* entry.
C31_Retried ==
    /\ aborted = ""
    /\ last.op = "raster"
    /\ last.created
    /\ ~last.create_ok
    /\ last.flushed \/ Len(sc.entries) < nfill

(***************************************************************************)
(* The pending uniforms and the inputs of the pass that is reused.         *)
(***************************************************************************)
\* The entry with the key of this step's dispatch, in the pool before it.
HitEntry == find_entry(sc.entries, last'.key)

\* The n-th pending uniform has the type and the shape of the input in.
SameTypeAndShape(u, in) ==
    /\ u.input.type = in.type
    /\ u.input.dim_v = in.dim_v
    /\ u.input.dim_m = in.dim_m

\* C32: on every cache hit on an entry with a pass, the pending uniforms
\* are as many as the snapshots of the entry and as the inputs of the pass,
\* each with the type and shape of the input at its place, so that neither
\* assert after the lookup fires.
C32_HitMatchesPass ==
    [][(IsDispatch /\ last'.hit /\ sc.entries[HitEntry].pass # 0) =>
          LET e == sc.entries[HitEntry]
              inputs == passes[e.pass].params.inputs
          IN  /\ aborted' \notin {"num_cached_uniforms", "num_inputs"}
              /\ Len(sc.uniforms) = Len(e.cached_uniforms)
              /\ Len(sc.uniforms) = Len(inputs)
              /\ \A n \in 1..Len(inputs) :
                     SameTypeAndShape(sc.uniforms[n], inputs[n])]_vars

(***************************************************************************)
(* The vertex layout of the pass that is reused.                           *)
(***************************************************************************)
\* C33: on every cache hit of a raster dispatch on an entry with a pass,
\* that pass was created with the vertex stride and the vertex attributes
\* (names, types, dimensions, offsets) that are set for this dispatch.
C33_HitSameLayout ==
    [][(/\ last'.op = "raster" /\ aborted' = ""
        /\ last'.hit /\ sc.entries[HitEntry].pass # 0) =>
          LET made == passes[sc.entries[HitEntry].pass].params
          IN  /\ made.vertex_stride = sc.params.vertex_stride
              /\ made.num_vertex_attribs = sc.params.num_vertex_attribs
              /\ vertex_attribs_of(made) = vertex_attribs_of(sc.params)]_vars

(***************************************************************************)
(* The current shader.                                                     *)
(***************************************************************************)
\* The current shader of the cache s is NULL or an entry of the pool with a
\* live pass.
CurrentValid(s, ps) ==
    \/ s.current_shader = 0
    \/ /\ s.current_shader \in 1..Len(s.entries)
       /\ s.entries[s.current_shader].pass \in DOMAIN ps

\* C34: in every state the current shader is NULL or an entry of the pool
\* with a live pass; a dispatch that flushes the pool starts with the
\* current shader NULL; and the pass a dispatch runs is the live pass of the
\* entry the dispatch found or made, which is in the pool and was not
\* destroyed by the flush, the values pointing to the snapshots of that
\* entry.
C34_CurrentShader ==
    /\ []CurrentValid(sc, passes)
    /\ [][IsDispatch =>
            /\ last'.flushed => sc.current_shader = 0
            /\ last'.ran =>
                  /\ last'.entry \in 1..Len(sc'.entries)
                  /\ last'.run_pass = sc'.entries[last'.entry].pass
                  /\ last'.run_pass \in DOMAIN passes'
                  /\ last'.run_pass \notin last'.destroyed
                  /\ \A k \in 1..Len(last'.values) :
                        /\ last'.values[k].index \in
                              1..Len(sc'.entries[last'.entry].cached_uniforms)
                        /\ last'.values[k].data =
                              sc'.entries[last'.entry].cached_uniforms[
                                  last'.values[k].index]]_vars

\* A dispatch has flushed a full pool and run the pass of the entry it made.
C34_Witness ==
    /\ aborted = ""
    /\ last.flushed
    /\ last.destroyed # {}
    /\ last.ran
    /\ last.run_pass = sc.entries[1].pass
    /\ sc.current_shader = 0

(***************************************************************************)
(* Textures, images and buffers in the value list.                         *)
(***************************************************************************)
\* The types of uniform that name a resource to bind.
OpaqueTypes == {"tex", "img_w", "buf_rw"}

\* C35: the values of every dispatch that runs a pass list each pending
\* texture, image and storage-buffer uniform with the resource declared for
\* this dispatch, on a hit as on a miss.
C35_OpaqueAlwaysListed ==
    [][(IsDispatch /\ last'.ran) =>
          \A n \in 1..Len(sc.uniforms) :
              sc.uniforms[n].input.type \in OpaqueTypes =>
                  \E k \in 1..Len(last'.values) :
                      /\ last'.values[k].index = n
                      /\ last'.values[k].data = sc.uniforms[n].v]_vars

\* A hit has run a pass with a texture, an image and a storage buffer, the
\* same three as on the run before, and listed all three.
C35_Witness ==
    /\ last.hit /\ last.ran
    /\ Len(sc.entries[last.entry].source.decls) = 3
    /\ {sc.entries[last.entry].source.decls[n].type : n \in 1..3} = OpaqueTypes
    /\ {last.values[k].index : k \in 1..Len(last.values)} = 1..3

(***************************************************************************)
(* The int and float uniforms of the programs.                             *)
(***************************************************************************)
\* The first words of the union v that make up the value of the input in.
ValueWords(v, in) ==
    SubSeq(v, 1, ra_render_pass_input_data_size(in) \div 4)

\* The program of the entry e holds, for each int and float input, the
\* value of the entry's snapshot.
ProgramIsSnapshot(e, ps) ==
    LET inputs == ps[e.pass].params.inputs
    IN  \A n \in 1..Len(inputs) :
            inputs[n].type \in {"int", "float"} =>
                /\ n \in 1..Len(e.cached_uniforms)
                /\ ps[e.pass].uniforms[n] = ValueWords(e.cached_uniforms[n],
                                                      inputs[n])

\* C36: the program of every entry that has a pass holds the snapshot's value
\* of each int and float uniform, and after a dispatch that ran a pass, the
\* program of that pass holds the value declared for this dispatch of each
\* pending int and float uniform.
C36_ProgramUpToDate ==
    /\ [](\A n \in 1..Len(sc.entries) :
            sc.entries[n].pass # 0 => ProgramIsSnapshot(sc.entries[n], passes))
    /\ [][(IsDispatch /\ last'.ran) =>
            \A n \in 1..Len(sc.uniforms) :
                sc.uniforms[n].input.type \in {"int", "float"} =>
                    passes'[last'.run_pass].uniforms[n] =
                        ValueWords(sc.uniforms[n].v, sc.uniforms[n].input)]_vars

\* A hit has run a pass whose float uniform was left out of the values, and
\* the program holds the value 2 that an earlier run uploaded.
C36_Witness ==
    /\ last.hit /\ last.ran
    /\ \E n \in 1..Len(passes[last.run_pass].params.inputs) :
          /\ passes[last.run_pass].params.inputs[n].type = "float"
          /\ \A k \in 1..Len(last.values) : last.values[k].index # n
          /\ passes[last.run_pass].uniforms[n] = <<2>>

(***************************************************************************)
(* The enabled extensions.                                                 *)
(***************************************************************************)
\* The string line occurs in text.
Occurs(line, text) ==
    \E i \in 1..(Len(text) - Len(line) + 1) :
        SubSeq(text, i, i + Len(line) - 1) = line

\* The enable line of each extension of exts occurs in text.
CarriesAll(exts, text) ==
    \A n \in 1..Len(exts) :
        Occurs("#extension " \o exts[n] \o " : enable\n", text)

\* C37: the extensions are stored once each; no step, be it a reset, a
\* dispatch or a flush, removes or moves one; an image declaration leaves its
\* extension stored; and the key of every dispatch, as the fragment and
\* vertex shaders of the pass it creates, carries the enable line of every
\* extension stored at the time.
C37_ExtensionsKept ==
    /\ [](\A n, m \in 1..Len(sc.exts) : sc.exts[n] = sc.exts[m] => n = m)
    /\ [][/\ Len(sc'.exts) >= Len(sc.exts)
          /\ SubSeq(sc'.exts, 1, Len(sc.exts)) = sc.exts
          /\ (\E n \in 1..Len(sc'.uniforms) :
                 sc'.uniforms[n].input.type = "img_w") =>
                \E n \in 1..Len(sc'.exts) :
                    sc'.exts[n] = "GL_ARB_shader_image_load_store"
          /\ (IsDispatch /\ last'.key # "") =>
                /\ CarriesAll(sc.exts, last'.key)
                /\ last'.create_ok =>
                      /\ CarriesAll(sc.exts,
                            passes'[sc'.entries[last'.entry].pass]
                                .params.frag_shader)
                      /\ CarriesAll(sc.exts,
                            passes'[sc'.entries[last'.entry].pass]
                                .params.vertex_shader)]_vars

\* A dispatch has flushed the full pool and made a pass whose fragment
\* shader carries the two extensions enabled before the pool was filled.
C37_Witness ==
    /\ last.flushed /\ last.create_ok
    /\ Len(sc.exts) = 2
    /\ CarriesAll(sc.exts, passes[last.run_pass].params.frag_shader)

(***************************************************************************)
(* The names and bindings of the pending uniforms.                         *)
(***************************************************************************)
\* The pending uniforms of the type.
PendingOf(type) ==
    {n \in 1..Len(sc.uniforms) : sc.uniforms[n].input.type = type}

\* The names of the uniforms us, in order.
NamesOf(us) == [n \in 1..Len(us) |-> us[n].input.name]

\* C38: the names of the pending uniforms are pairwise distinct, and the
\* bindings of the pending textures, of the pending images and of the
\* pending storage buffers are pairwise distinct and at least 1; a
\* declaration keeps the names pending in their order, adding a new name at
\* the end, and leaves every other uniform as it was.
C38_NamesAndBindings ==
    /\ [](/\ \A n, m \in 1..Len(sc.uniforms) :
               sc.uniforms[n].input.name = sc.uniforms[m].input.name => n = m
          /\ \A type \in OpaqueTypes : \A n, m \in PendingOf(type) :
               /\ sc.uniforms[n].input.binding >= 1
               /\ sc.uniforms[n].input.binding = sc.uniforms[m].input.binding
                     => n = m)
    /\ [][last'.op = "assemble" =>
            /\ Len(sc'.uniforms) \in {Len(sc.uniforms), Len(sc.uniforms) + 1}
            /\ SubSeq(NamesOf(sc'.uniforms), 1, Len(sc.uniforms))
                  = NamesOf(sc.uniforms)
            /\ \A n, m \in 1..Len(sc.uniforms) :
                  (n # m /\ sc'.uniforms[n] # sc.uniforms[n])
                      => sc'.uniforms[m] = sc.uniforms[m]]_vars

\* The name "a", declared first as a texture, has become a storage buffer in
\* the first place while "b" holds a second texture unit and a float was
\* replaced by it.
C38_Witness ==
    /\ Len(sc.uniforms) = 2
    /\ sc.uniforms[1].input.name = "a" /\ sc.uniforms[1].input.type = "buf_rw"
    /\ sc.uniforms[2].input.name = "b" /\ sc.uniforms[2].input.type = "tex"
    /\ sc.uniforms[2].input.binding = 3
    /\ sc.next_buffer_binding = 2

(***************************************************************************)
(* The special descriptors.                                                *)
(***************************************************************************)
\* The registered formats that declare a special descriptor for the pixel
\* format asked for.
Declaring ==
    {n \in 1..Len(formats) :
        /\ formats[n].special_imgfmt = last.args.imgfmt
        /\ formats[n].special_imgfmt_desc # << >>}

\* C39: a call of ra_get_imgfmt_desc for a pixel format that is not regular
\* reads no descriptor that is not there, and when it succeeds *out is the
\* special descriptor that a registered format declares for that pixel
\* format.
C39_OnlyDeclaredSpecial ==
    (IsGetDesc /\ ~AskedRegular) =>
        /\ aborted = ""
        /\ last.ret =>
              \E n \in Declaring :
                  last.values[1] = formats[n].special_imgfmt_desc[1]

(***************************************************************************)
(* The keys of the pool.                                                   *)
(***************************************************************************)
\* C40: the keys of the entries of the pool are pairwise distinct.
C40_KeysDistinct ==
    \A n, m \in 1..Len(sc.entries) :
        sc.entries[n].total = sc.entries[m].total => n = m

\* After a flush the pool holds two entries again, and the last dispatch
\* was a hit of the newer one.
C40_Witness ==
    /\ nfill > SC_MAX_ENTRIES + 1
    /\ Len(sc.entries) = 2
    /\ last.hit /\ last.entry = 2

====
